---------------------------- MODULE Spec2Model ----------------------------
(***************************************************************************)
(* MCP gateway (routes/mcp-gateway): the session map, the POST handler,    *)
(* the per-session protocol server with its tools/list and tools/call      *)
(* handlers, and the periodic sweep of idle sessions.                       *)
(*                                                                         *)
(* The gateway runs on one JavaScript thread.  A handler runs without      *)
(* interruption from one await to the next; `cur` names the request whose  *)
(* synchronous block is running, and every other request, the sweep timer  *)
(* and the clock wait until it is released at the next await or return.    *)
(***************************************************************************)
EXTENDS Integers, Sequences, FiniteSets, TLC

(***************************************************************************)
(* Bounds of the model.                                                    *)
(***************************************************************************)
MaxConcurrent == 2
MaxAudit == 1
MaxObjs == 2
MaxUuids == 1
MaxTicks == 1
TickMs == 1800001
MaxHealthyAudit == 3
MaxBlocks == 3
MaxUpdaters == 2
MaxPrompts == 3

(***************************************************************************)
(* Program constants.                                                      *)
(***************************************************************************)
SESSION_TIMEOUT_MS == 30 * 60 * 1000

Reqs == 1..MaxConcurrent
NoReq == 0
FirstReq == 1
NoObj == 0

(***************************************************************************)
(* Session identifiers are opaque strings.  <<>> is "no header"            *)
(* (undefined); a client-chosen string is <<"client", 0, k>>; a string the *)
(* server generated, `session-${Date.now()}-${randomUUID()}`, is           *)
(* <<"session", t, u>> with t the clock and u the u-th UUID drawn.         *)
(***************************************************************************)
NoSid == <<>>
ClientSids == {<<"client", 0, 1>>}
GenSid(t, u) == <<"session", t, u>>
Truthy(s) == s # NoSid

(***************************************************************************)
(* Authorization headers.  A header is absent (NoAuth) or the string       *)
(* scheme ++ ws blanks ++ token.                                           *)
(***************************************************************************)
AgentA == "11111111-1111-4111-8111-111111111111"
AgentB == "22222222-2222-4222-8222-222222222222"
UuidTokens == {AgentA, AgentB}
ExistingAgents == {AgentA}
NoAuth == [scheme |-> "absent", ws |-> 0, token |-> ""]
NoAgent == "null"
AuthHeaders ==
    { NoAuth,
      [scheme |-> "", ws |-> 0, token |-> ""],
      [scheme |-> "Bearer", ws |-> 1, token |-> AgentA],
      [scheme |-> "bearer", ws |-> 2, token |-> AgentB],
      [scheme |-> "Bearer", ws |-> 0, token |-> AgentA],
      [scheme |-> "Basic", ws |-> 1, token |-> AgentA],
      [scheme |-> "Bearer", ws |-> 1, token |-> "not-a-uuid"] }

LowerCase(s) == IF s \in {"Bearer", "bearer", "BEARER"} THEN "bearer"
                ELSE IF s \in {"Basic", "basic"} THEN "basic" ELSE s

\* authHeader.match(/^Bearer\s+(.+)$/i): the captured token, or "" for no match.
\* \s+ gives back one blank to (.+) when nothing else follows the blanks.
BearerMatch(h) ==
    IF LowerCase(h.scheme) = "bearer" /\ h.ws >= 1
    THEN IF h.token # "" THEN h.token
         ELSE IF h.ws >= 2 THEN " " ELSE ""
    ELSE ""

\* extractAgentIdFromAuth without the UUID validation of the token.
extractAgentIdFromAuthNoUuidCheck(h) ==
    IF h = NoAuth \/ (h.scheme = "" /\ h.ws = 0 /\ h.token = "") THEN NoAgent
    ELSE IF BearerMatch(h) = "" THEN NoAgent
    ELSE BearerMatch(h)

\* extractAgentIdFromAuth: the agent id, or NoAgent (null).
extractAgentIdFromAuth(h) ==
    IF h = NoAuth \/ (h.scheme = "" /\ h.ws = 0 /\ h.token = "") THEN NoAgent
    ELSE IF BearerMatch(h) = "" THEN NoAgent
    ELSE IF BearerMatch(h) \in UuidTokens THEN BearerMatch(h)
    ELSE NoAgent

Methods == {"initialize", "tools/list", "tools/call", "notifications/initialized"}

(***************************************************************************)
(* Tool names are strings; a name is kept as the sequence of its pieces so *)
(* that startsWith is a prefix test.                                        *)
(***************************************************************************)
MCP_SERVER_NAME == <<"archestra">>
MCP_SERVER_TOOL_NAME_SEPARATOR == <<"__">>
ToolNames == { <<"archestra", "__", "whoami">>, <<"github", "__", "list_issues">> }
NoTool == <<>>
StartsWith(name, prefix) ==
    /\ Len(name) >= Len(prefix)
    /\ SubSeq(name, 1, Len(prefix)) = prefix

(***************************************************************************)
(* JSON values: [t |-> type, s |-> the strings it holds].  An array holds  *)
(* the texts of its blocks, one string for each block; a string or an      *)
(* object holds its own text.                                              *)
(***************************************************************************)
JsonArray(texts) == [t |-> "array", s |-> texts]
JsonString(text) == [t |-> "string", s |-> <<text>>]
JsonObject(text) == [t |-> "object", s |-> <<text>>]
JsonUndefined == [t |-> "undefined", s |-> <<>>]
EmptyMapping == JsonObject("")
IsArray(v) == v.t = "array"

\* JSON.stringify(value): the serialized text.  JSON.stringify(undefined) is
\* undefined, written here as the text "undefined".
Stringify(v) ==
    IF v.t = "string" THEN "\"" \o v.s[1] \o "\""
    ELSE IF v.t = "object" THEN "{" \o v.s[1] \o "}"
    ELSE IF v.t = "array" THEN "[" \o (IF v.s = <<>> THEN "" ELSE v.s[1]) \o "]"
    ELSE "undefined"

\* [{ type: "text", text }]
TextBlock(text) == JsonArray(<<text>>)

(***************************************************************************)
(* What the execution backend does with one call: the downstream client    *)
(* (mcpClient.executeToolCall) returns a CommonToolResult or throws; the   *)
(* builtin executor (executeArchestraTool) returns a protocol result or    *)
(* throws.  A thrown value is an Error (throwsError), an Error that has a  *)
(* `code` property (throwsCoded), or a value that is no Error              *)
(* (throwsValue).                                                           *)
(***************************************************************************)
NoOutcome == [how |-> "none", isError |-> FALSE, error |-> "", content |-> JsonUndefined, code |-> 0]
DownstreamOutcomes ==
    { [how |-> "returns", isError |-> FALSE, error |-> "", content |-> JsonArray(<<"hello">>), code |-> 0],
      [how |-> "returns", isError |-> FALSE, error |-> "", content |-> JsonString("hello"), code |-> 0],
      [how |-> "returns", isError |-> FALSE, error |-> "", content |-> JsonObject("ok:1"), code |-> 0],
      [how |-> "returns", isError |-> TRUE, error |-> "boom", content |-> JsonUndefined, code |-> 0],
      [how |-> "returns", isError |-> TRUE, error |-> "", content |-> JsonUndefined, code |-> 0],
      [how |-> "throwsError", isError |-> FALSE, error |-> "connection refused", content |-> JsonUndefined, code |-> 0],
      [how |-> "throwsCoded", isError |-> FALSE, error |-> "Request timed out",
       content |-> JsonUndefined, code |-> -32001],
      [how |-> "throwsValue", isError |-> FALSE, error |-> "", content |-> JsonUndefined, code |-> 0] }
BuiltinOutcomes ==
    { [how |-> "returns", isError |-> FALSE, error |-> "", content |-> JsonArray(<<"agent">>), code |-> 0],
      [how |-> "returns", isError |-> TRUE, error |-> "", content |-> JsonArray(<<"bad arguments">>), code |-> 0],
      [how |-> "throwsError", isError |-> FALSE, error |-> "unknown tool", content |-> JsonUndefined, code |-> 0] }

\* What a handler gives back to the protocol server: a result or a thrown
\* JSON-RPC error object.
HandlerResult(content, isError) ==
    [kind |-> "result", content |-> content, isError |-> isError,
     code |-> 0, message |-> "", data |-> ""]
HandlerError(code, message, data) ==
    [kind |-> "error", content |-> JsonUndefined, isError |-> FALSE,
     code |-> code, message |-> message, data |-> data]
NoBody == [kind |-> "none", content |-> JsonUndefined, isError |-> FALSE,
           code |-> 0, message |-> "", data |-> ""]

\* The catch block of the tools/call handler.
CallToolCatch(thrown) ==
    IF thrown.how = "jsonrpc" THEN HandlerError(thrown.code, thrown.message, "")
    ELSE IF thrown.how = "throwsCoded" THEN HandlerError(thrown.code, thrown.error, "")
    ELSE HandlerError(-32603, "Tool execution failed",
                      IF thrown.how = "throwsError" THEN thrown.error ELSE "Unknown error")

\* The isError branch of the tools/call handler: the throw of a JSON-RPC
\* error, caught and re-thrown by the catch block.
DownstreamFailure(result) ==
    CallToolCatch([how |-> "jsonrpc", code |-> -32603,
                   message |-> IF result.error # "" THEN result.error
                               ELSE "Tool execution failed"])

\* The provider's content handed on as it came.
NormalizeContentPassThrough(content) == content

\* Every content wrapped, an array too.
NormalizeContentAlwaysWrap(content) == TextBlock(Stringify(content))

\* Array.isArray(result.content) ? result.content
\*   : [{ type: "text", text: JSON.stringify(result.content) }]
NormalizeContent(content) ==
    IF IsArray(content) THEN content ELSE TextBlock(Stringify(content))

\* Transform CommonToolResult to MCP response format.
TransformResult(result) == HandlerResult(NormalizeContent(result.content), FALSE)

\* No name taken for a builtin.
IsBuiltinNever(name) == StartsWith(name, MCP_SERVER_NAME) /\ FALSE

\* name.startsWith(`${MCP_SERVER_NAME}${MCP_SERVER_TOOL_NAME_SEPARATOR}`)
IsBuiltin(name) == StartsWith(name, MCP_SERVER_NAME \o MCP_SERVER_TOOL_NAME_SEPARATOR)

\* The backend the handler calls for a tool: executeArchestraTool or
\* mcpClient.executeToolCall.
Executor(name) == IF IsBuiltin(name) THEN "builtin" ELSE "downstream"
\* params.arguments of a tools/call request: absent, or a mapping.
RequestArguments == {JsonUndefined, JsonObject("\"repo\":\"archestra\"")}

\* `mcp-call-${Date.now()}-${Math.random().toString(36).substring(2, 9)}`
NoCallId == <<>>
ToolCallId(t) == <<"mcp-call", t, "random">>

\* The call handed on with the request's arguments as they came.
CommonToolCallRawArguments(id, name, args) ==
    [id |-> id, name |-> name, arguments |-> args]

\* The call handed on under an id of its own.
CommonToolCallOtherId(id, name, args) ==
    [id |-> <<"mcp-call", 0, "other">>, name |-> name,
     arguments |-> IF args.t \in {"undefined", "null"} THEN EmptyMapping ELSE args]

\* const toolCall: CommonToolCall = { id: toolCallId, name, arguments: args || {} }
CommonToolCall(id, name, args) ==
    [id |-> id, name |-> name,
     arguments |-> IF args.t \in {"undefined", "null"} THEN EmptyMapping ELSE args]

\* executeArchestraTool(name, args, { profile: agent }): the builtin executor
\* takes the name and the arguments as they came, and no id.
BuiltinCall(name, args) == [id |-> NoCallId, name |-> name, arguments |-> args]

\* The id of the CommonToolResult that mcpClient.executeToolCall returns for a
\* call: the id of the call.
ResultId(toolCall, outcome) ==
    IF outcome.how = "returns" THEN toolCall.id ELSE NoCallId

NoCall == [id |-> NoCallId, name |-> NoTool, arguments |-> JsonUndefined]
NoExec == [by |-> "none", agent |-> NoAgent, args |-> JsonUndefined,
           toolCallId |-> NoCallId, call |-> NoCall, resultId |-> NoCallId]

\* What the handler hands to the backend it calls, and the id that comes back.
Execution(name, args, agentId, t, outcome) ==
    IF IsBuiltin(name)
    THEN [by |-> "builtin", agent |-> agentId, args |-> args, toolCallId |-> NoCallId,
          call |-> BuiltinCall(name, args), resultId |-> NoCallId]
    ELSE LET toolCallId == ToolCallId(t)
             toolCall == CommonToolCall(toolCallId, name, args)
         IN [by |-> "downstream", agent |-> agentId, args |-> args,
             toolCallId |-> toolCallId, call |-> toolCall,
             resultId |-> ResultId(toolCall, outcome)]

\* The CallToolRequestSchema handler, given what the backend did.
CallToolHandler(name, outcome) ==
    IF IsBuiltin(name)
    THEN IF outcome.how = "returns" THEN HandlerResult(outcome.content, outcome.isError)
         ELSE CallToolCatch(outcome)
    ELSE IF outcome.how # "returns" THEN CallToolCatch(outcome)
         ELSE IF outcome.isError THEN DownstreamFailure(outcome)
         ELSE TransformResult(outcome)

VARIABLES
    activeSessions,  \* sessionId -> [server, transport, lastAccess]
    servers,         \* the Server objects constructed so far
    transports,      \* the transports constructed so far
    now,             \* Date.now()
    uuids,           \* number of randomUUID() values drawn
    audit,           \* the rows McpToolCallModel.create has inserted
    cur,             \* the request whose synchronous block is running
    pc,              \* where each request's handler stands
    req,             \* each request's headers and body
    loc,             \* each handler's local variables
    resp,            \* the response written for each request
    content,         \* the vendor response an adapter wraps: its content blocks
    toolCalls,       \* what the adapter's getToolCalls() returned
    promptsTable,    \* the rows of the prompts table
    agentPromptsTable, \* the rows of the agent_prompts table
    updates,         \* each PromptModel.update call: its arguments, locals, position
    agentToolsTable, \* the rows of the agent_tools table
    assigning,       \* the assign or bulk-assign request: its inputs, results, reply
    patching,        \* the PATCH /api/agent-tools/:id request and its reply
    signUp           \* the request the auth before-hook is run on, and its outcome

gatewayVars == <<activeSessions, servers, transports, now, uuids, audit, cur, pc, req, loc, resp>>
adapterVars == <<content, toolCalls>>
promptVars == <<promptsTable, agentPromptsTable, updates>>
assignVars == <<agentToolsTable, assigning, patching>>
authVars == <<signUp>>
vars == <<gatewayVars, adapterVars, promptVars, assignVars, authVars>>

NoResp == [status |-> 0, sid |-> NoSid, id |-> "none", body |-> NoBody]
NoReqData == [auth |-> NoAuth, sid |-> NoSid, method |-> "", tool |-> NoTool]
NoLoc == [agentId |-> NoAgent, effectiveSessionId |-> NoSid, server |-> NoObj,
          transport |-> NoObj, created |-> FALSE, hijacked |-> FALSE,
          exec |-> NoExec, outcome |-> NoOutcome]

EmptyMap == [s \in {} |-> 0]

(***************************************************************************)
(* The vendor adapter (adapterV2/anthropic): a response's content is a     *)
(* sequence of blocks, text blocks and tool_use blocks; getToolCalls()     *)
(* returns the tool calls of the response in the common format.            *)
(***************************************************************************)
TextContentBlock(text) ==
    [type |-> "text", text |-> text, id |-> "", name |-> "", input |-> JsonUndefined]
ToolUseBlock(id, name, input) ==
    [type |-> "tool_use", text |-> "", id |-> id, name |-> name, input |-> input]
ToolUseInputs == {EmptyMapping, JsonObject("\"param\":\"value1\""), JsonUndefined}
VendorBlocks ==
    {TextContentBlock("Hello")} \cup
    {ToolUseBlock(id, name, input) :
        id \in {"tool_1", "tool_2"}, name \in {"tool_one", "tool_two"},
        input \in ToolUseInputs}
VendorContents == UNION {[1..n -> VendorBlocks] : n \in 0..MaxBlocks}

\* The arguments of a call: the block's input, the empty mapping when the
\* block has none.
ToolCallArguments(input) == IF input.t = "object" THEN input ELSE EmptyMapping

\* One tool_use block in the common format.
ToCommonToolCall(block) ==
    [id |-> block.id, name |-> block.name, arguments |-> ToolCallArguments(block.input)]

IsToolUse(block) == block.type = "tool_use"

\* The calls of the tool_use blocks, last block first.
getToolCallsReversed(blocks) ==
    LET used == SelectSeq(blocks, IsToolUse) IN
    [i \in 1..Len(used) |-> ToCommonToolCall(used[Len(used) + 1 - i])]

\* adapter.getToolCalls(): the tool_use blocks of the response, in order.
getToolCalls(blocks) ==
    LET used == SelectSeq(blocks, IsToolUse) IN
    [i \in 1..Len(used) |-> ToCommonToolCall(used[i])]

NoToolCalls == [returned |-> FALSE, value |-> <<>>]
AdapterIdle == content = <<>> /\ toolCalls = NoToolCalls

(***************************************************************************)
(* PromptModel: the prompts table, the agent_prompts table and the calls   *)
(* of PromptModel.update in flight.  A row's id is its place in the table. *)
(***************************************************************************)
Updaters == 1..MaxUpdaters
NoPromptId == 0
Undefined == "undefined"
NoPrompt == [id |-> NoPromptId, organizationId |-> "", name |-> "", type |-> "",
             content |-> "", version |-> 0, parentPromptId |-> NoPromptId,
             isActive |-> FALSE, createdBy |-> ""]
agentsTable == << [id |-> "agent-1", name |-> "Agent 1"],
                  [id |-> "agent-2", name |-> "Agent 2"] >>

\* a || b on strings
OrElse(a, b) == IF a \in {Undefined, ""} THEN b ELSE a

\* PromptModel.create's row: version 1, no parent, active.
CreatedPrompt(id, organizationId, createdBy, input) ==
    [id |-> id, organizationId |-> organizationId, name |-> input.name,
     type |-> input.type, content |-> input.content, version |-> 1,
     parentPromptId |-> NoPromptId, isActive |-> TRUE, createdBy |-> createdBy]

\* db.select().from(promptsTable).where(eq(id)): the row, or none.
findById(table, id) ==
    IF \E i \in DOMAIN table : table[i].id = id
    THEN table[CHOOSE i \in DOMAIN table : table[i].id = id]
    ELSE NoPrompt

\* The rows of agent_prompts that point to a prompt: their places.
RelationshipsOf(table, promptId) == {i \in DOMAIN table : table[i].promptId = promptId}

\* getAgentsForPrompt: the agents joined to the prompt, ordered by name.
getAgentsForPrompt(table, promptId) ==
    SelectSeq(agentsTable,
              LAMBDA a : \E i \in RelationshipsOf(table, promptId) : table[i].agentId = a.id)

\* update(promptsTable).set({ isActive: false }).where(eq(id))
Deactivated(table, id) ==
    [i \in DOMAIN table |-> IF table[i].id = id THEN [table[i] EXCEPT !.isActive = FALSE]
                            ELSE table[i]]

\* The new version carrying the old version's number.
NewVersionSameNumber(id, currentPrompt, createdBy, input) ==
    [id |-> id, organizationId |-> currentPrompt.organizationId,
     name |-> OrElse(input.name, currentPrompt.name), type |-> currentPrompt.type,
     content |-> OrElse(input.content, currentPrompt.content),
     version |-> currentPrompt.version, parentPromptId |-> currentPrompt.id,
     isActive |-> TRUE, createdBy |-> createdBy]

\* The values of the new version's row.
NewVersion(id, currentPrompt, createdBy, input) ==
    [id |-> id, organizationId |-> currentPrompt.organizationId,
     name |-> OrElse(input.name, currentPrompt.name), type |-> currentPrompt.type,
     content |-> OrElse(input.content, currentPrompt.content),
     version |-> currentPrompt.version + 1, parentPromptId |-> currentPrompt.id,
     isActive |-> TRUE, createdBy |-> createdBy]

\* update(agentPromptsTable).set({ promptId }).where(eq(promptId, id))
Migrated(table, id, newId) ==
    [i \in DOMAIN table |-> IF table[i].promptId = id
                            THEN [table[i] EXCEPT !.promptId = newId]
                            ELSE table[i]]

NoUpdateInput == [name |-> Undefined, content |-> Undefined]
NoUpdate == [pc |-> "idle", id |-> NoPromptId, createdBy |-> "", input |-> NoUpdateInput,
             currentPrompt |-> NoPrompt, existingRelationships |-> <<>>,
             newVersion |-> NoPrompt, agents |-> <<>>, returned |-> "pending",
             versions |-> <<>>, versionIds |-> <<>>]
PromptsIdle ==
    /\ promptsTable = <<>>
    /\ agentPromptsTable = <<>>
    /\ updates = [u \in Updaters |-> NoUpdate]

(***************************************************************************)
(* Tool assignment (routes/agent-tool.ts): the agent_tools table, the      *)
(* tables its validation reads, and the requests of its routes.            *)
(***************************************************************************)
Null == "null"
toolsTable == << [id |-> "tool-local", catalogId |-> "catalog-local"],
                 [id |-> "tool-remote", catalogId |-> "catalog-remote"],
                 [id |-> "tool-plain", catalogId |-> Null] >>
internalMcpCatalogTable == << [id |-> "catalog-local", serverType |-> "local"],
                              [id |-> "catalog-remote", serverType |-> "remote"] >>
mcpServersTable ==
    << [id |-> "server-team", catalogId |-> "catalog-local", ownerId |-> "user-1",
        authType |-> "team", teams |-> {"team-1"}],
       [id |-> "server-personal", catalogId |-> "catalog-remote", ownerId |-> "user-1",
        authType |-> "personal", teams |-> {}],
       [id |-> "server-orphan", catalogId |-> "catalog-remote", ownerId |-> Null,
        authType |-> "personal", teams |-> {}] >>
usersTable == << [id |-> "user-1", teams |-> {"team-1"}],
                 [id |-> "user-2", teams |-> {"team-2"}] >>
agentTeamsTable == << [agentId |-> "agent-1", teamId |-> "team-1"],
                      [agentId |-> "agent-2", teamId |-> "team-2"] >>

\* Model.findById(id): the row, or a row whose id is Null when there is none.
FindRow(table, id) ==
    IF \E i \in DOMAIN table : table[i].id = id
    THEN table[CHOOSE i \in DOMAIN table : table[i].id = id]
    ELSE [id |-> Null]
Found(row) == row.id # Null

\* a JavaScript condition on an id: null, undefined and "" are falsy
IsSet(id) == id \notin {Null, Undefined, ""}

TeamsOfAgent(agentId) ==
    {agentTeamsTable[i].teamId :
        i \in {j \in DOMAIN agentTeamsTable : agentTeamsTable[j].agentId = agentId}}
agentAndMcpServerShareTeam(agentId, mcpServerId) ==
    TeamsOfAgent(agentId) \cap FindRow(mcpServersTable, mcpServerId).teams # {}
userHasAgentAccess(userId, agentId, isAgentAdmin) ==
    \/ isAgentAdmin
    \/ TeamsOfAgent(agentId) \cap FindRow(usersTable, userId).teams # {}

\* What assignToolToAgent and the validations return.
NoError == [kind |-> "null", status |-> 0, type |-> "", message |-> ""]
ErrorObject(status, type, message) ==
    [kind |-> "error", status |-> status, type |-> type, message |-> message]
Fulfilled(kind) == [kind |-> kind, status |-> 0, type |-> "", message |-> ""]
Rejected(message) == [kind |-> "rejected", status |-> 0, type |-> "", message |-> message]
Pending == Fulfilled("pending")

validateCredentialSource(agentId, credentialSourceMcpServerId) ==
    LET mcpServer == FindRow(mcpServersTable, credentialSourceMcpServerId)
        owner == IF IsSet(mcpServer.ownerId)
                 THEN FindRow(usersTable, mcpServer.ownerId)
                 ELSE [id |-> Null]
    IN  IF ~Found(mcpServer)
        THEN ErrorObject(404, "not_found",
                 "MCP server with ID " \o credentialSourceMcpServerId \o " not found")
        ELSE IF ~Found(owner)
        THEN ErrorObject(400, "validation_error", "Personal token owner not found")
        ELSE IF /\ mcpServer.authType = "team"
                /\ ~agentAndMcpServerShareTeam(agentId, credentialSourceMcpServerId)
        THEN ErrorObject(400, "validation_error",
                 "The selected team token must belong to a team that this agent is assigned to")
        ELSE IF /\ mcpServer.authType = "personal"
                /\ ~userHasAgentAccess(owner.id, agentId, TRUE)
        THEN ErrorObject(400, "validation_error",
                 "The selected personal token must belong to a user who is a member of a team that this agent is assigned to")
        ELSE NoError

validateExecutionSource(toolId, executionSourceMcpServerId) ==
    LET mcpServer == FindRow(mcpServersTable, executionSourceMcpServerId)
        tool == FindRow(toolsTable, toolId)
    IN  IF ~Found(mcpServer)
        THEN ErrorObject(404, "not_found", "MCP server not found")
        ELSE IF ~Found(tool)
        THEN ErrorObject(404, "not_found", "Tool not found")
        ELSE IF tool.catalogId # mcpServer.catalogId
        THEN ErrorObject(400, "validation_error",
                 "Execution source must be from the same catalog as the tool")
        ELSE NoError

\* The agent_tools table is a set of rows, one for each (agent, tool).
AgentToolId(agentId, toolId) == agentId \o "/" \o toolId
OrNull(id) == IF id = Undefined THEN Null ELSE id
AgentToolRow(agentId, toolId, credentialSourceMcpServerId, executionSourceMcpServerId) ==
    [id |-> AgentToolId(agentId, toolId), agentId |-> agentId, toolId |-> toolId,
     credentialSourceMcpServerId |-> OrNull(credentialSourceMcpServerId),
     executionSourceMcpServerId |-> OrNull(executionSourceMcpServerId),
     toolResultTreatment |-> "untrusted"]
RowsOf(table, agentId, toolId) ==
    {row \in table : row.agentId = agentId /\ row.toolId = toolId}

\* AgentToolModel.createOrUpdateCredentials: its status and the table it leaves.
createOrUpdateCredentials(table, agentId, toolId, credentialSourceMcpServerId, executionSourceMcpServerId) ==
    LET existing == RowsOf(table, agentId, toolId)
        same == {row \in existing :
                    /\ row.credentialSourceMcpServerId = OrNull(credentialSourceMcpServerId)
                    /\ row.executionSourceMcpServerId = OrNull(executionSourceMcpServerId)}
    IN  IF existing = {}
        THEN [status |-> "created",
              table |-> table \cup {AgentToolRow(agentId, toolId,
                            credentialSourceMcpServerId, executionSourceMcpServerId)}]
        ELSE IF same # {}
        THEN [status |-> "unchanged", table |-> table]
        ELSE [status |-> "updated",
              table |-> (table \ existing) \cup
                  {[row EXCEPT !.credentialSourceMcpServerId =
                                    OrNull(credentialSourceMcpServerId),
                               !.executionSourceMcpServerId =
                                    OrNull(executionSourceMcpServerId)] :
                      row \in existing}]

\* The end of assignToolToAgent: the write, and the status it is turned into.
Assigned(table, agentId, toolId, credentialSourceMcpServerId, executionSourceMcpServerId) ==
    LET result == createOrUpdateCredentials(table, agentId, toolId,
                      credentialSourceMcpServerId, executionSourceMcpServerId)
    IN  [value |-> Fulfilled(IF result.status = "unchanged" THEN "duplicate"
                             ELSE IF result.status = "updated" THEN "updated"
                             ELSE "null"),
         table |-> result.table]

\* assignToolToAgent with every early return skipped.
assignToolToAgentUnvalidated(table, agentId, toolId, credentialSourceMcpServerId, executionSourceMcpServerId) ==
    Assigned(table, agentId, toolId, credentialSourceMcpServerId,
             executionSourceMcpServerId)

\* assignToolToAgent: what it returns and the table it leaves.
assignToolToAgent(table, agentId, toolId, credentialSourceMcpServerId, executionSourceMcpServerId) ==
    LET agent == FindRow(agentsTable, agentId)
        tool == FindRow(toolsTable, toolId)
        catalogItem == IF Found(tool) /\ IsSet(tool.catalogId)
                       THEN FindRow(internalMcpCatalogTable, tool.catalogId)
                       ELSE [id |-> Null]
        serverType == IF Found(catalogItem) THEN catalogItem.serverType ELSE Undefined
        credentialError ==
            IF IsSet(credentialSourceMcpServerId)
            THEN validateCredentialSource(agentId, credentialSourceMcpServerId)
            ELSE NoError
        executionError ==
            IF IsSet(executionSourceMcpServerId)
            THEN validateExecutionSource(toolId, executionSourceMcpServerId)
            ELSE NoError
        Fails(error) == [value |-> error, table |-> table]
    IN  IF ~Found(agent)
        THEN Fails(ErrorObject(404, "not_found",
                       "Agent with ID " \o agentId \o " not found"))
        ELSE IF ~Found(tool)
        THEN Fails(ErrorObject(404, "not_found",
                       "Tool with ID " \o toolId \o " not found"))
        ELSE IF serverType = "local" /\ ~IsSet(executionSourceMcpServerId)
        THEN Fails(ErrorObject(400, "validation_error",
                       "Execution source installation is required for local MCP server tools"))
        ELSE IF serverType = "remote" /\ ~IsSet(credentialSourceMcpServerId)
        THEN Fails(ErrorObject(400, "validation_error",
                       "Credential source is required for remote MCP server tools"))
        ELSE IF credentialError # NoError THEN Fails(credentialError)
        ELSE IF executionError # NoError THEN Fails(executionError)
        ELSE Assigned(table, agentId, toolId,
                      credentialSourceMcpServerId, executionSourceMcpServerId)

NoBulk == [succeeded |-> <<>>, failed |-> <<>>, duplicates |-> <<>>]
NoAssignReply == [status |-> 0, error |-> NoError, success |-> FALSE, body |-> NoBulk]
NoAssigning == [route |-> "none", assignments |-> <<>>, before |-> {},
                results |-> <<>>, reply |-> NoAssignReply]
NoAgentTool == [id |-> Null]
NoPatchBody == [credentialSourceMcpServerId |-> Undefined,
                executionSourceMcpServerId |-> Undefined,
                toolResultTreatment |-> Undefined]
NoPatchReply == [status |-> 0, error |-> NoError, agentTool |-> NoAgentTool]
NoPatching == [id |-> Null, body |-> NoPatchBody, before |-> {}, reply |-> NoPatchReply]

\* AgentToolModel.update(id, data): the row it returns and the table it leaves.
updateAgentTool(table, id, data) ==
    LET existing == {row \in table : row.id = id}
        Set(old, new) == IF new = Undefined THEN old ELSE new
        updated == {[row EXCEPT
                        !.credentialSourceMcpServerId =
                            Set(@, data.credentialSourceMcpServerId),
                        !.executionSourceMcpServerId =
                            Set(@, data.executionSourceMcpServerId),
                        !.toolResultTreatment = Set(@, data.toolResultTreatment)] :
                    row \in existing}
    IN  IF existing = {}
        THEN [agentTool |-> NoAgentTool, table |-> table]
        ELSE [agentTool |-> CHOOSE row \in updated : TRUE,
              table |-> (table \ existing) \cup updated]

\* The PATCH /api/agent-tools/:id handler: its reply and the table it leaves.
patchAgentTool(table, id, body) ==
    LET credentialSourceMcpServerId == body.credentialSourceMcpServerId
        executionSourceMcpServerId == body.executionSourceMcpServerId
        looksUp == IsSet(credentialSourceMcpServerId) \/ IsSet(executionSourceMcpServerId)
        found == {row \in table : row.id = id}
        agentToolForValidation ==
            IF looksUp /\ found # {} THEN CHOOSE row \in found : TRUE ELSE NoAgentTool
        tool == FindRow(toolsTable, agentToolForValidation.toolId)
        catalogItem == FindRow(internalMcpCatalogTable, tool.catalogId)
        serverType == IF Found(catalogItem) THEN catalogItem.serverType ELSE Undefined
        credentialError ==
            IF IsSet(credentialSourceMcpServerId) /\ Found(agentToolForValidation)
            THEN validateCredentialSource(agentToolForValidation.agentId,
                                          credentialSourceMcpServerId)
            ELSE NoError
        executionError ==
            IF IsSet(executionSourceMcpServerId) /\ Found(agentToolForValidation)
            THEN validateExecutionSource(agentToolForValidation.toolId,
                                         executionSourceMcpServerId)
            ELSE NoError
        checksCatalog ==
            /\ executionSourceMcpServerId = Null
            /\ Found(agentToolForValidation)
            /\ Found(tool)
            /\ IsSet(tool.catalogId)
        update == updateAgentTool(table, id, body)
        Sends(error) == [reply |-> [status |-> error.status, error |-> error,
                                    agentTool |-> NoAgentTool],
                         table |-> table]
        NotFound == Sends(ErrorObject(404, "not_found",
                              "Agent-tool relationship with ID " \o id \o " not found"))
    IN  IF looksUp /\ ~Found(agentToolForValidation) THEN NotFound
        ELSE IF credentialError # NoError THEN Sends(credentialError)
        ELSE IF executionError # NoError THEN Sends(executionError)
        ELSE IF /\ checksCatalog
                /\ serverType = "local"
                /\ ~IsSet(executionSourceMcpServerId)
        THEN Sends(ErrorObject(400, "validation_error",
                       "Execution source installation is required for local MCP server tools and cannot be set to null"))
        ELSE IF /\ checksCatalog
                /\ serverType = "remote"
                /\ ~IsSet(credentialSourceMcpServerId)
        THEN Sends(ErrorObject(400, "validation_error",
                       "Credential source is required for remote MCP server tools and cannot be set to null"))
        ELSE IF ~Found(update.agentTool) THEN NotFound
        ELSE [reply |-> [status |-> 200, error |-> NoError, agentTool |-> update.agentTool],
              table |-> update.table]

\* results.forEach of the bulk-assign handler: the three lists it sends.
Places(results, kinds) ==
    LET Chosen(i) == results[i].kind \in kinds
    IN  SelectSeq([i \in DOMAIN results |-> i], Chosen)
\* results.forEach without its branch for rejected promises
ClassifiedFulfilledOnly(assignments, results) ==
    LET succeeded == Places(results, {"null", "updated"})
        duplicates == Places(results, {"duplicate"})
        failed == Places(results, {"error"})
        Pair(i) == [agentId |-> assignments[i].agentId, toolId |-> assignments[i].toolId]
    IN  [succeeded |-> [k \in DOMAIN succeeded |-> Pair(succeeded[k])],
         failed |-> [k \in DOMAIN failed |->
                        [agentId |-> assignments[failed[k]].agentId,
                         toolId |-> assignments[failed[k]].toolId,
                         error |-> OrElse(results[failed[k]].message, "Unknown error")]],
         duplicates |-> [k \in DOMAIN duplicates |-> Pair(duplicates[k])]]
Classified(assignments, results) ==
    LET succeeded == Places(results, {"null", "updated"})
        duplicates == Places(results, {"duplicate"})
        failed == Places(results, {"error", "rejected"})
        Pair(i) == [agentId |-> assignments[i].agentId, toolId |-> assignments[i].toolId]
    IN  [succeeded |-> [k \in DOMAIN succeeded |-> Pair(succeeded[k])],
         failed |-> [k \in DOMAIN failed |->
                        [agentId |-> assignments[failed[k]].agentId,
                         toolId |-> assignments[failed[k]].toolId,
                         error |-> OrElse(results[failed[k]].message, "Unknown error")]],
         duplicates |-> [k \in DOMAIN duplicates |-> Pair(duplicates[k])]]
AssignIdle ==
    /\ agentToolsTable = {}
    /\ assigning = NoAssigning
    /\ patching = NoPatching

(***************************************************************************)
(* Sign-up by invitation (auth/better-auth.ts): the before-hook, the       *)
(* invitations it reads and the request it is run on.  A URL or a path is  *)
(* the sequence of its pieces, cut where the hook's string operations cut. *)
(***************************************************************************)
invitationsTable ==
    << [id |-> "inv-pending", email |-> "invited@example.com", status |-> "pending",
        expiresAt |-> 2],
       [id |-> "inv-accepted", email |-> "invited@example.com", status |-> "accepted",
        expiresAt |-> 2],
       \* expiresAt 0: the column is null, the invitation never expires
       [id |-> "inv-open", email |-> "invited@example.com", status |-> "pending",
        expiresAt |-> 0] >>

\* z.email().safeParse(email).success, on the addresses of the model
IsEmail(email) == email \in {"invited@example.com", "other@example.com"}

RECURSIVE Split(_, _)
\* s.split(separator)
Split(s, separator) ==
    IF \E i \in DOMAIN s : s[i] = separator
    THEN LET i == CHOOSE j \in DOMAIN s :
                      s[j] = separator /\ \A k \in 1..(j - 1) : s[k] # separator
         IN  <<SubSeq(s, 1, i - 1)>> \o Split(SubSeq(s, i + 1, Len(s)), separator)
    ELSE <<s>>

RECURSIVE Join(_)
\* the string a sequence of pieces spells
Join(s) == IF s = <<>> THEN "" ELSE Head(s) \o Join(Tail(s))

\* a body without callbackURL
NoCallbackURL == <<>>

\* body.callbackURL?.split("invitationId=")[1]?.split("&")[0]
InvitationIdOf(callbackURL) ==
    IF callbackURL = NoCallbackURL THEN Undefined
    ELSE LET parts == Split(callbackURL, "invitationId=")
         IN  IF Len(parts) < 2 THEN Undefined
             ELSE Join(Split(parts[2], "&")[1])

Passes == [kind |-> "passes", code |-> "", message |-> ""]
APIError(code, message) == [kind |-> "throws", code |-> code, message |-> message]

\* hooks.before: what the hook does with a request
handleBeforeHook(ctx, today) ==
    LET invitationId == InvitationIdOf(ctx.body.callbackURL)
        invitation == FindRow(invitationsTable, invitationId)
    IN  IF ctx.path = <<"/organization/invite-member">> /\ ctx.method = "POST"
        THEN IF ~IsEmail(ctx.body.email)
             THEN APIError("BAD_REQUEST", "Invalid email format")
             ELSE Passes
        ELSE IF StartsWith(ctx.path, <<"/sign-up/email">>) /\ ctx.method = "POST"
        THEN IF ~IsSet(invitationId)
             THEN APIError("FORBIDDEN",
                      "Direct sign-up is disabled. You need an invitation to create an account.")
             ELSE IF ~Found(invitation)
             THEN APIError("BAD_REQUEST", "Invalid invitation ID")
             ELSE IF invitation.status # "pending"
             THEN APIError("BAD_REQUEST",
                      "This invitation has already been " \o invitation.status)
             ELSE IF invitation.expiresAt # 0 /\ invitation.expiresAt < today
             THEN APIError("BAD_REQUEST",
                      "The invitation link has expired, please contact your admin for a new invitation")
             ELSE IF IsSet(ctx.body.email) /\ invitation.email # ctx.body.email
             THEN APIError("BAD_REQUEST",
                      "Email address does not match the invitation. You must use the invited email address.")
             ELSE Passes
        ELSE Passes

NoCtx == [path |-> <<>>, method |-> "", body |-> [email |-> Undefined, callbackURL |-> NoCallbackURL]]
NoSignUp == [ctx |-> NoCtx, today |-> 0, outcome |-> [kind |-> "pending", code |-> "", message |-> ""]]
AuthIdle == signUp = NoSignUp

GatewayInit ==
    /\ activeSessions = EmptyMap
    /\ servers = <<>>
    /\ transports = <<>>
    /\ now = 0
    /\ uuids = 0
    /\ audit = <<>>
    /\ cur = NoReq
    /\ pc = [r \in Reqs |-> "idle"]
    /\ req = [r \in Reqs |-> NoReqData]
    /\ loc = [r \in Reqs |-> NoLoc]
    /\ resp = [r \in Reqs |-> NoResp]

Init == GatewayInit /\ AdapterIdle /\ PromptsIdle /\ AssignIdle /\ AuthIdle

\* The strings a client may put in the mcp-session-id header: its own, and
\* those the server has issued or stored.
KnownSids == ClientSids \cup DOMAIN activeSessions
                \cup {transports[t].sessionId : t \in DOMAIN transports}

\* The POSTs a client may send.  A tools/call names a tool.
CallRequests(a, ids) ==
    { [auth |-> a, sid |-> s, method |-> "tools/call", tool |-> n] :
        s \in ids, n \in ToolNames }
PlainRequests(a, ids, methods) ==
    { [auth |-> a, sid |-> s, method |-> m, tool |-> NoTool] : s \in ids, m \in methods }
Requests ==
    UNION { IF extractAgentIdFromAuth(a) = AgentA
            THEN PlainRequests(a, {NoSid} \cup KnownSids, Methods \ {"tools/call"})
                   \cup CallRequests(a, {NoSid} \cup KnownSids)
            ELSE IF extractAgentIdFromAuth(a) # NoAgent
            THEN PlainRequests(a, {NoSid} \cup KnownSids, {"initialize", "tools/list"})
            ELSE PlainRequests(a, {NoSid}, {"initialize"})
                   \cup PlainRequests(a, DOMAIN activeSessions, {"tools/list"})
            : a \in AuthHeaders }

isInitialize(q) == q.method = "initialize"

\* The has-check never finding the session.
HasSessionNever(sessionId) == Truthy(sessionId) /\ FALSE

\* if (sessionId && activeSessions.has(sessionId))
HasSession(sessionId) == Truthy(sessionId) /\ sessionId \in DOMAIN activeSessions

\* An identifier always generated, whatever the client sent.
EffectiveSessionIdAlwaysNew(sessionId, t, u) == GenSid(t, u)

\* sessionId || `session-${Date.now()}-${randomUUID()}`
EffectiveSessionId(sessionId, t, u) ==
    IF Truthy(sessionId) THEN sessionId ELSE GenSid(t, u)

ErrorEnvelope(status, code, message, data) ==
    [status |-> status, sid |-> NoSid, id |-> "null",
     body |-> HandlerError(code, message, data)]

\* The handler returns an envelope for Fastify to send.
Reply(r, response) ==
    /\ resp' = [resp EXCEPT ![r] = response]
    /\ pc' = [pc EXCEPT ![r] = "done"]
    /\ cur' = r

\* The 401 return of the POST handler.
Unauthorized(r) ==
    /\ Reply(r, ErrorEnvelope(401, -32000,
           "Unauthorized: Missing or invalid Authorization header. Expected: Bearer <agent-id>", ""))
    /\ loc' = [loc EXCEPT ![r] = NoLoc]
    /\ UNCHANGED <<activeSessions, servers, uuids>>

\* The reuse branch leaving lastAccess as it was.
ReuseSessionUntouched(r, agentId, sessionId) ==
    LET sessionData == activeSessions[sessionId] IN
    /\ loc' = [loc EXCEPT ![r] = [NoLoc EXCEPT !.agentId = agentId,
                                               !.transport = sessionData.transport,
                                               !.server = sessionData.server]]
    /\ pc' = [pc EXCEPT ![r] = "handoff"]
    /\ cur' = r
    /\ resp' = [resp EXCEPT ![r] = NoResp]
    /\ UNCHANGED <<activeSessions, servers, uuids>>

\* The reuse branch: the stored pair is taken and the session is touched.
ReuseSession(r, agentId, sessionId) ==
    LET sessionData == activeSessions[sessionId] IN
    /\ loc' = [loc EXCEPT ![r] = [NoLoc EXCEPT !.agentId = agentId,
                                               !.transport = sessionData.transport,
                                               !.server = sessionData.server]]
    /\ activeSessions' = [activeSessions EXCEPT ![sessionId].lastAccess = now]
    /\ pc' = [pc EXCEPT ![r] = "handoff"]
    /\ cur' = r
    /\ resp' = [resp EXCEPT ![r] = NoResp]
    /\ UNCHANGED <<servers, uuids>>

\* The initialize branch up to the await of AgentModel.findById inside
\* createAgentServer.  The Server constructed just before the await is known
\* to this call alone until createAgentServer returns it, and it is entered
\* in `servers` then.
BeginCreate(r, agentId, sessionId) ==
    /\ Len(servers) + Cardinality({k \in Reqs : pc[k] = "awaitAgent"}) < MaxObjs
    /\ ~Truthy(sessionId) => uuids < MaxUuids
    /\ loc' = [loc EXCEPT ![r] = [NoLoc EXCEPT !.agentId = agentId,
                  !.effectiveSessionId = EffectiveSessionId(sessionId, now, uuids + 1),
                  !.created = TRUE]]
    /\ uuids' = IF Truthy(sessionId) THEN uuids ELSE uuids + 1
    /\ UNCHANGED servers
    /\ pc' = [pc EXCEPT ![r] = "awaitAgent"]
    /\ cur' = NoReq
    /\ resp' = [resp EXCEPT ![r] = NoResp]
    /\ UNCHANGED activeSessions

\* The 400 return: a non-initialize request without a valid session.
InvalidSession(r, agentId) ==
    /\ Reply(r, ErrorEnvelope(400, -32000, "Bad Request: Invalid or expired session", ""))
    /\ loc' = [loc EXCEPT ![r] = [NoLoc EXCEPT !.agentId = agentId]]
    /\ UNCHANGED <<activeSessions, servers, uuids>>

\* The session branch of the POST handler.
ResolveSession(r, q, agentId) ==
    IF HasSession(q.sid) THEN ReuseSession(r, agentId, q.sid)
    ELSE IF isInitialize(q) THEN BeginCreate(r, agentId, q.sid)
    ELSE InvalidSession(r, agentId)

\* The POST handler from its start to its first await or return.
HandlePost(r, q) ==
    LET agentId == extractAgentIdFromAuth(q.auth) IN
    IF agentId = NoAgent THEN Unauthorized(r) ELSE ResolveSession(r, q, agentId)

(***************************************************************************)
(* A POST arrives and its handler runs to its first await or return.       *)
(***************************************************************************)
Post(r) ==
    /\ cur = NoReq
    /\ UNCHANGED <<adapterVars, promptVars, assignVars, authVars>>
    /\ pc[r] = "idle"
    /\ \A k \in Reqs : k < r => pc[k] # "idle"
    /\ \E q \in Requests :
        /\ req' = [req EXCEPT ![r] = q]
        /\ HandlePost(r, q)
    /\ UNCHANGED <<transports, now, audit>>

\* The request is over: its handler's frame and the request object go away.
Retire(r) ==
    /\ cur = r /\ pc[r] = "done"
    /\ UNCHANGED <<adapterVars, promptVars, assignVars, authVars>>
    /\ cur' = NoReq
    /\ pc' = [pc EXCEPT ![r] = "idle"]
    /\ req' = [req EXCEPT ![r] = NoReqData]
    /\ loc' = [loc EXCEPT ![r] = NoLoc]
    /\ resp' = [resp EXCEPT ![r] = NoResp]
    /\ UNCHANGED <<activeSessions, servers, transports, now, uuids, audit>>

\* reply.sent: true once reply.hijack() has been called.
ReplySent(r) == loc[r].hijacked

\* The catch block answering whether or not the reply was handed over.
CatchIgnoringSent(r, message) ==
    /\ resp' = [resp EXCEPT ![r] =
                  ErrorEnvelope(500, -32603, "Internal server error", message)]
    /\ pc' = [pc EXCEPT ![r] = "done"]
    /\ cur' = r

\* The catch block of the POST handler: the 500 envelope is returned only
\* if (!reply.sent); else the handler returns nothing.
Catch(r, message) ==
    /\ resp' = [resp EXCEPT ![r] =
                  IF ~ReplySent(r)
                  THEN ErrorEnvelope(500, -32603, "Internal server error", message)
                  ELSE resp[r]]
    /\ pc' = [pc EXCEPT ![r] = "done"]
    /\ cur' = r

\* createTransport: the transport keeps clientSessionId for its
\* sessionIdGenerator; sessionId is set when the transport handles initialize.
createTransport(clientSessionId) ==
    [clientSessionId |-> clientSessionId, sessionId |-> NoSid, server |-> NoObj]

\* createTransport called with the header's identifier.
TransportSessionArgHeader(sessionId, effectiveSessionId) == sessionId

\* The identifier createTransport is called with.
TransportSessionArg(sessionId, effectiveSessionId) == effectiveSessionId

\* sessionIdGenerator: clientSessionId || `session-${Date.now()}-${randomUUID()}`
sessionIdGenerator(transport, t, u) ==
    IF Truthy(transport.clientSessionId) THEN transport.clientSessionId ELSE GenSid(t, u)

\* createAgentServer going on without the check of the agent it looked up.
AgentLookupUnchecked(r) ==
    /\ cur = NoReq /\ pc[r] = "awaitAgent"
    /\ UNCHANGED <<adapterVars, promptVars, assignVars, authVars>>
    /\ servers' = Append(servers, [agentId |-> loc[r].agentId])
    /\ transports' = Append(transports,
          [createTransport(TransportSessionArg(req[r].sid, loc[r].effectiveSessionId))
             EXCEPT !.server = Len(servers) + 1])
    /\ loc' = [loc EXCEPT ![r].server = Len(servers) + 1,
                          ![r].transport = Len(transports) + 1]
    /\ pc' = [pc EXCEPT ![r] = "awaitConnect"]
    /\ UNCHANGED <<activeSessions, now, uuids, audit, req, resp, cur>>

(***************************************************************************)
(* createAgentServer resumes after AgentModel.findById: it throws for a    *)
(* missing agent (the route's catch answers 500), else it registers the    *)
(* handlers and returns; the route creates the transport and awaits        *)
(* server.connect(transport).                                              *)
(***************************************************************************)
AgentLookup(r) ==
    /\ cur = NoReq /\ pc[r] = "awaitAgent"
    /\ UNCHANGED <<adapterVars, promptVars, assignVars, authVars>>
    /\ IF loc[r].agentId \notin ExistingAgents
       THEN /\ Catch(r, "Agent not found")
            /\ UNCHANGED <<servers, transports, loc>>
       ELSE /\ servers' = Append(servers, [agentId |-> loc[r].agentId])
            /\ transports' = Append(transports,
                  [createTransport(TransportSessionArg(req[r].sid, loc[r].effectiveSessionId))
                     EXCEPT !.server = Len(servers) + 1])
            /\ loc' = [loc EXCEPT ![r].server = Len(servers) + 1,
                                  ![r].transport = Len(transports) + 1]
            /\ pc' = [pc EXCEPT ![r] = "awaitConnect"]
            /\ UNCHANGED <<resp, cur>>
    /\ UNCHANGED <<activeSessions, now, uuids, audit, req>>

\* activeSessions.set(effectiveSessionId, {server, transport, lastAccess: Date.now()})
SetSession(map, key, server, transport, t) ==
    [s \in DOMAIN map \cup {key} |->
        IF s = key THEN [server |-> server, transport |-> transport, lastAccess |-> t]
        ELSE map[s]]

\* The route going on to handleRequest without having stored the session.
StoreSkipped(r) ==
    /\ cur = NoReq /\ pc[r] = "awaitConnect"
    /\ UNCHANGED <<adapterVars, promptVars, assignVars, authVars>>
    /\ pc' = [pc EXCEPT ![r] = "handoff"]
    /\ cur' = r
    /\ UNCHANGED <<activeSessions, servers, transports, now, uuids, audit, req, loc, resp>>

(***************************************************************************)
(* The route resumes after server.connect and stores the session; the      *)
(* block goes on to hand the request to the transport.                     *)
(***************************************************************************)
Store(r) ==
    /\ cur = NoReq /\ pc[r] = "awaitConnect"
    /\ UNCHANGED <<adapterVars, promptVars, assignVars, authVars>>
    /\ activeSessions' = SetSession(activeSessions, loc[r].effectiveSessionId,
                                    loc[r].server, loc[r].transport, now)
    /\ pc' = [pc EXCEPT ![r] = "handoff"]
    /\ cur' = r
    /\ UNCHANGED <<servers, transports, now, uuids, audit, req, loc, resp>>

\* The transport writes the response and handleRequest resolves; the route
\* resumes, and for initialize goes on to await McpToolCallModel.create.
Finish(r) ==
    /\ pc' = [pc EXCEPT ![r] = IF isInitialize(req[r]) THEN "initAudit" ELSE "done"]
    /\ cur' = IF isInitialize(req[r]) THEN NoReq ELSE r

(***************************************************************************)
(* reply.hijack() and the call of transport.handleRequest.  The transport  *)
(* checks the request before it dispatches it: initialize sets the         *)
(* transport's session id from its generator, or is refused when the       *)
(* transport is already initialized; any other message is refused when the *)
(* transport is not initialized or the header names another session; a     *)
(* notification is accepted with 202; a request is dispatched to the       *)
(* server's handler.                                                        *)
(***************************************************************************)
Handoff(r) ==
    /\ cur = r /\ pc[r] = "handoff"
    /\ UNCHANGED <<adapterVars, promptVars, assignVars, authVars>>
    /\ LET t == loc[r].transport
           tr == transports[t]
           Refuse(response) == resp' = [resp EXCEPT ![r] = response] /\ Finish(r)
           Dispatch == /\ pc' = [pc EXCEPT ![r] = "handling"]
                       /\ cur' = NoReq
                       /\ UNCHANGED resp
       IN IF isInitialize(req[r])
          THEN IF Truthy(tr.sessionId)
               THEN /\ Refuse(ErrorEnvelope(400, -32600,
                                    "Invalid Request: Server already initialized", ""))
                    /\ UNCHANGED <<transports, uuids>>
               ELSE /\ transports' = [transports EXCEPT ![t].sessionId =
                                          sessionIdGenerator(tr, now, uuids + 1)]
                    /\ uuids' = IF Truthy(tr.clientSessionId) THEN uuids ELSE uuids + 1
                    /\ Dispatch
          ELSE /\ UNCHANGED <<transports, uuids>>
               /\ IF ~Truthy(tr.sessionId)
                  THEN Refuse(ErrorEnvelope(400, -32000,
                                  "Bad Request: Server not initialized", ""))
                  ELSE IF req[r].sid # tr.sessionId
                  THEN Refuse(ErrorEnvelope(404, -32001, "Session not found", ""))
                  ELSE IF req[r].method = "notifications/initialized"
                  THEN Refuse([status |-> 202, sid |-> NoSid, id |-> "none", body |-> NoBody])
                  ELSE Dispatch
    /\ loc' = [loc EXCEPT ![r].hijacked = TRUE]
    /\ UNCHANGED <<activeSessions, servers, now, audit, req>>

\* transport.handleRequest rejects after the reply was handed over and before
\* anything was written to it; the route's catch block runs.
HandleRequestThrows(r) ==
    /\ cur = NoReq /\ pc[r] = "handling"
    /\ UNCHANGED <<adapterVars, promptVars, assignVars, authVars>>
    /\ Catch(r, "handleRequest failed")
    /\ UNCHANGED <<activeSessions, servers, transports, now, uuids, audit, req, loc>>

\* The agent a session's server was created for (the agentId its handlers close over).
ServerAgent(r) == servers[loc[r].server].agentId

Respond(r, body) ==
    /\ resp' = [resp EXCEPT ![r] =
           [status |-> 200, sid |-> transports[loc[r].transport].sessionId,
            id |-> "request", body |-> body]]
    /\ Finish(r)

\* The protocol server answers initialize with its capabilities.
InitializeHandler(r) ==
    /\ cur = NoReq /\ pc[r] = "handling" /\ req[r].method = "initialize"
    /\ UNCHANGED <<adapterVars, promptVars, assignVars, authVars>>
    /\ Respond(r, HandlerResult(JsonUndefined, FALSE))
    /\ UNCHANGED <<activeSessions, servers, transports, now, uuids, audit, req, loc>>

\* The ListToolsRequestSchema handler up to its await of McpToolCallModel.create.
ListToolsFetch(r) ==
    /\ cur = NoReq /\ pc[r] = "handling" /\ req[r].method = "tools/list"
    /\ UNCHANGED <<adapterVars, promptVars, assignVars, authVars>>
    /\ pc' = [pc EXCEPT ![r] = "listAudit"]
    /\ UNCHANGED <<activeSessions, servers, transports, now, uuids, audit,
                   cur, req, loc, resp>>

\* The row the gateway writes for initialize and tools/list (toolCall: null).
AuditRow(agentId, method) ==
    [agentId |-> agentId, mcpServerName |-> "mcp-gateway", method |-> method,
     toolCall |-> NoTool]

\* The row the execution backend writes for one tools/call: the builtin
\* executor under the name "archestra", the downstream client under the
\* name of the tool's server.
ToolCallRecord(agentId, name) ==
    [agentId |-> agentId,
     mcpServerName |-> IF IsBuiltin(name) THEN "archestra" ELSE name[1],
     method |-> "tools/call", toolCall |-> name]

\* The audit table takes one more row.
AuditRoom(limit, ok) == ok => Len(audit) < limit

\* A row written over the table.
PersistReplacing(log, row, ok) == IF ok THEN <<row>> ELSE log

\* McpToolCallModel.create inserts the row, or throws and the handler logs it.
Persist(log, row, ok) == IF ok THEN Append(log, row) ELSE log

\* The tools/list handler letting the persistence error escape.
ListToolsAuditSurfacing(r, ok) ==
    /\ cur = NoReq /\ pc[r] = "listAudit"
    /\ UNCHANGED <<adapterVars, promptVars, assignVars, authVars>>
    /\ AuditRoom(MaxAudit, ok)
    /\ audit' = Persist(audit, AuditRow(ServerAgent(r), "tools/list"), ok)
    /\ Respond(r, IF ok THEN HandlerResult(JsonArray(<<"tools">>), FALSE)
                  ELSE HandlerError(-32603, "Internal error", ""))
    /\ UNCHANGED <<activeSessions, servers, transports, now, uuids, req, loc>>

\* The ListToolsRequestSchema handler resumes from McpToolCallModel.create
\* (inserted, or thrown and logged) and returns the tools.
ListToolsReturn(r, ok) ==
    /\ cur = NoReq /\ pc[r] = "listAudit"
    /\ UNCHANGED <<adapterVars, promptVars, assignVars, authVars>>
    /\ audit' = Persist(audit, AuditRow(ServerAgent(r), "tools/list"), ok)
    /\ Respond(r, HandlerResult(JsonArray(<<"tools">>), FALSE))
    /\ UNCHANGED <<activeSessions, servers, transports, now, uuids, req, loc>>

ListToolsAudit(r, ok) == AuditRoom(MaxAudit, ok) /\ ListToolsReturn(r, ok)

\* The CallToolRequestSchema handler resumes when the backend has answered.
\* The backend has written its row (ok) or failed to (not ok).
CallToolReturn(r, outcome, ok) ==
    /\ cur = NoReq /\ pc[r] = "handling" /\ req[r].method = "tools/call"
    /\ UNCHANGED <<adapterVars, promptVars, assignVars, authVars>>
    /\ outcome \in (IF Executor(req[r].tool) = "builtin" THEN BuiltinOutcomes
                     ELSE DownstreamOutcomes)
    /\ audit' = Persist(audit, ToolCallRecord(ServerAgent(r), req[r].tool), ok)
    /\ \E args \in RequestArguments :
          loc' = [loc EXCEPT ![r].outcome = outcome,
                             ![r].exec = Execution(req[r].tool, args, ServerAgent(r),
                                                   now, outcome)]
    /\ Respond(r, CallToolHandler(req[r].tool, outcome))
    /\ UNCHANGED <<activeSessions, servers, transports, now, uuids, req>>

CallTool(r, outcome, ok) == AuditRoom(MaxAudit, ok) /\ CallToolReturn(r, outcome, ok)

\* The route's audit of initialize.
InitAuditReturn(r, ok) ==
    /\ cur = NoReq /\ pc[r] = "initAudit"
    /\ UNCHANGED <<adapterVars, promptVars, assignVars, authVars>>
    /\ audit' = Persist(audit, AuditRow(loc[r].agentId, "initialize"), ok)
    /\ pc' = [pc EXCEPT ![r] = "done"]
    /\ cur' = r
    /\ UNCHANGED <<activeSessions, servers, transports, now, uuids,
                   req, loc, resp>>

InitAudit(r, ok) == AuditRoom(MaxAudit, ok) /\ InitAuditReturn(r, ok)

\* A session expiring when its age reaches the timeout.
\* No session ever counted as expired.
ExpiredNever(sessionData, t) == t - sessionData.lastAccess > SESSION_TIMEOUT_MS /\ FALSE

ExpiredAtTimeout(sessionData, t) == t - sessionData.lastAccess >= SESSION_TIMEOUT_MS

\* now - sessionData.lastAccess > SESSION_TIMEOUT_MS
Expired(sessionData, t) == t - sessionData.lastAccess > SESSION_TIMEOUT_MS

ExpiredSessionIds(map, t) == {s \in DOMAIN map : Expired(map[s], t)}

\* A sweep that removes every session.
cleanupAllSessions ==
    /\ cur = NoReq
    /\ UNCHANGED <<adapterVars, promptVars, assignVars, authVars>>
    /\ activeSessions' = EmptyMap
    /\ UNCHANGED <<servers, transports, now, uuids, audit, cur, pc, req, loc, resp>>

\* cleanupExpiredSessions, run by the interval timer.
cleanupExpiredSessions ==
    /\ cur = NoReq
    /\ UNCHANGED <<adapterVars, promptVars, assignVars, authVars>>
    /\ LET expiredSessionIds == ExpiredSessionIds(activeSessions, now) IN
       activeSessions' = [s \in DOMAIN activeSessions \ expiredSessionIds |->
                                activeSessions[s]]
    /\ UNCHANGED <<servers, transports, now, uuids, audit, cur, pc, req, loc, resp>>

Tick ==
    /\ cur = NoReq
    /\ UNCHANGED <<adapterVars, promptVars, assignVars, authVars>>
    /\ now + TickMs <= MaxTicks * TickMs
    /\ now' = now + TickMs
    /\ UNCHANGED <<activeSessions, servers, transports, uuids, audit,
                   cur, pc, req, loc, resp>>

Next ==
    \/ \E r \in Reqs : Post(r)
    \/ \E r \in Reqs : Retire(r)
    \/ \E r \in Reqs : AgentLookup(r)
    \/ \E r \in Reqs : Store(r)
    \/ \E r \in Reqs : Handoff(r)
    \/ \E r \in Reqs : HandleRequestThrows(r)
    \/ \E r \in Reqs : InitializeHandler(r)
    \/ \E r \in Reqs : ListToolsFetch(r)
    \/ \E r \in Reqs, ok \in BOOLEAN : ListToolsAudit(r, ok)
    \/ \E r \in Reqs, outcome \in DownstreamOutcomes \cup BuiltinOutcomes, ok \in BOOLEAN :
          CallTool(r, outcome, ok)
    \/ \E r \in Reqs, ok \in BOOLEAN : InitAudit(r, ok)
    \/ cleanupExpiredSessions
    \/ Tick

Spec == Init /\ [][Next]_vars

(***************************************************************************)
(* The gateway with a healthy audit table: every McpToolCallModel.create    *)
(* inserts its row.  Requests come one at a time and the clock stands.      *)
(***************************************************************************)
HealthyListToolsAudit(r) == AuditRoom(MaxHealthyAudit, TRUE) /\ ListToolsReturn(r, TRUE)
HealthyCallTool(r, outcome) ==
    AuditRoom(MaxHealthyAudit, TRUE) /\ CallToolReturn(r, outcome, TRUE)
HealthyInitAudit(r) == AuditRoom(MaxHealthyAudit, TRUE) /\ InitAuditReturn(r, TRUE)

HealthyNext ==
    \/ Post(FirstReq)
    \/ Retire(FirstReq)
    \/ AgentLookup(FirstReq)
    \/ Store(FirstReq)
    \/ Handoff(FirstReq)
    \/ InitializeHandler(FirstReq)
    \/ ListToolsFetch(FirstReq)
    \/ HealthyListToolsAudit(FirstReq)
    \/ \E outcome \in DownstreamOutcomes \cup BuiltinOutcomes :
          HealthyCallTool(FirstReq, outcome)
    \/ HealthyInitAudit(FirstReq)

HealthySpec == Init /\ [][HealthyNext]_vars

(***************************************************************************)
(* The gateway with sessions stored and no POST in flight: the clock, the  *)
(* sweep timer and the discovery GET.  The sessions were created by         *)
(* initialize requests carrying the client's identifiers at time 0 or 1.    *)
(***************************************************************************)
StoredSids == << <<"client", 0, 1>>, <<"client", 0, 2>>, <<"client", 0, 3>> >>
StoredTimes == {0, 1, SESSION_TIMEOUT_MS, SESSION_TIMEOUT_MS + 1, SESSION_TIMEOUT_MS + 2}

StoredInit ==
    /\ now \in {0, 1}
    /\ servers = [i \in DOMAIN StoredSids |-> [agentId |-> AgentA]]
    /\ transports = [i \in DOMAIN StoredSids |->
                        [createTransport(StoredSids[i])
                           EXCEPT !.sessionId = StoredSids[i], !.server = i]]
    /\ \E lastAccess \in [DOMAIN StoredSids -> 0..now] :
          activeSessions =
             [s \in {StoredSids[i] : i \in DOMAIN StoredSids} |->
                LET i == CHOOSE k \in DOMAIN StoredSids : StoredSids[k] = s
                IN [server |-> i, transport |-> i, lastAccess |-> lastAccess[i]]]
    /\ uuids = 0
    /\ audit = <<>>
    /\ cur = NoReq
    /\ pc = [r \in Reqs |-> "idle"]
    /\ req = [r \in Reqs |-> NoReqData]
    /\ loc = [r \in Reqs |-> NoLoc]
    /\ resp = [r \in Reqs |-> NoResp]
    /\ AdapterIdle
    /\ PromptsIdle
    /\ AssignIdle
    /\ AuthIdle

\* Date.now() moves on.
StoredTick ==
    /\ cur = NoReq
    /\ UNCHANGED <<adapterVars, promptVars, assignVars, authVars>>
    /\ \E t \in StoredTimes : t > now /\ now' = t
    /\ UNCHANGED <<activeSessions, servers, transports, uuids, audit,
                   cur, pc, req, loc, resp>>

\* The body of the discovery response, or of its 401.
DiscoveryBody(agentId) ==
    IF agentId = NoAgent
    THEN [kind |-> "unauthorized", error |-> "Unauthorized",
          message |-> "Missing or invalid Authorization header. Expected: Bearer <agent-id>",
          name |-> <<>>, agentId |-> NoAgent, transport |-> "", tools |-> FALSE]
    ELSE [kind |-> "discovery", error |-> "", message |-> "",
          name |-> <<"archestra-agent-", agentId>>, agentId |-> agentId,
          transport |-> "http", tools |-> TRUE]

\* The discovery answering 200 whatever the header.
GetResponseAlways200(h) ==
    [status |-> 200, sid |-> NoSid, id |-> "none",
     body |-> DiscoveryBody(IF extractAgentIdFromAuth(h) = NoAgent THEN AgentA
                            ELSE extractAgentIdFromAuth(h))]

\* The GET handler's reply.
GetResponse(h) ==
    LET agentId == extractAgentIdFromAuth(h) IN
    [status |-> IF agentId = NoAgent THEN 401 ELSE 200, sid |-> NoSid, id |-> "none",
     body |-> DiscoveryBody(agentId)]

\* A GET on the gateway endpoint: the handler runs to its return.
Get(r) ==
    /\ cur = NoReq /\ pc[r] = "idle"
    /\ UNCHANGED <<adapterVars, promptVars, assignVars, authVars>>
    /\ \E h \in AuthHeaders, s \in {NoSid} \cup DOMAIN activeSessions :
          /\ req' = [req EXCEPT ![r] = [auth |-> h, sid |-> s, method |-> "GET",
                                        tool |-> NoTool]]
          /\ resp' = [resp EXCEPT ![r] = GetResponse(h)]
    /\ pc' = [pc EXCEPT ![r] = "done"]
    /\ cur' = r
    /\ UNCHANGED <<activeSessions, servers, transports, now, uuids, audit, loc>>

StoredNext ==
    \/ StoredTick
    \/ cleanupExpiredSessions
    \/ Get(FirstReq)
    \/ Retire(FirstReq)

StoredSpec == StoredInit /\ [][StoredNext]_vars

(***************************************************************************)
(* Properties.                                                             *)
(***************************************************************************)
InvalidSessionMessage == "Bad Request: Invalid or expired session"

\* The request took the reuse branch / the create branch.
Reused(r) == ~loc[r].created /\ loc[r].transport # NoObj
Created(r) == loc[r].created /\ loc[r].transport # NoObj

\* The key of the session a request runs on.
SessionKey(r) == IF loc[r].created THEN loc[r].effectiveSessionId ELSE req[r].sid

\* A POST has just arrived at slot r.
Arrives(r) == pc[r] = "idle" /\ pc'[r] # "idle"

\* The header is one the claim C9 calls unauthorized: absent, not of the
\* form "Bearer <token>", or with a token that is no UUID.
NotBearerUuid(h) ==
    \/ h = NoAuth
    \/ LowerCase(h.scheme) # "bearer"
    \/ h.ws = 0
    \/ h.token \notin UuidTokens

\* C1: a POST carrying an identifier that is in the session map is handed to
\* the pair stored under it: nothing is constructed, the entry keeps its
\* server and transport, and the set of sessions does not change.
C1_SessionContinuity ==
    /\ [][\A r \in Reqs :
            (Arrives(r) /\ ~NotBearerUuid(req'[r].auth)
               /\ req'[r].sid \in DOMAIN activeSessions)
            => LET s == req'[r].sid IN
               /\ pc'[r] = "handoff"
               /\ loc'[r].server = activeSessions[s].server
               /\ loc'[r].transport = activeSessions[s].transport
               /\ servers' = servers /\ transports' = transports
               /\ DOMAIN activeSessions' = DOMAIN activeSessions
               /\ activeSessions'[s].server = activeSessions[s].server
               /\ activeSessions'[s].transport = activeSessions[s].transport]_vars
    /\ [](\A r \in Reqs :
            (pc[r] = "handoff" /\ ~loc[r].created)
            => /\ req[r].sid \in DOMAIN activeSessions
               /\ activeSessions[req[r].sid].transport = loc[r].transport
               /\ activeSessions[req[r].sid].server = loc[r].server)

\* C1 witness: a tools/list on a stored identifier was answered by the stored pair.
C1_Witness ==
    \E r \in Reqs :
        /\ pc[r] = "done" /\ req[r].method = "tools/list" /\ resp[r].status = 200
        /\ Reused(r)
        /\ req[r].sid \in DOMAIN activeSessions
        /\ activeSessions[req[r].sid].transport = loc[r].transport

\* C2 (as claimed): an authenticated non-initialize POST carrying an
\* identifier that was a session once and is in the map no more gets a
\* session created under that identifier, and is never answered with the
\* 400 "Invalid or expired session".
C2_AutoRecoveryNonInitialize ==
    \A r \in Reqs :
        (/\ pc[r] = "done" /\ loc[r].agentId # NoAgent
         /\ ~isInitialize(req[r]) /\ Truthy(req[r].sid) /\ ~Reused(r)
         /\ \E t \in DOMAIN transports : transports[t].sessionId = req[r].sid)
        => /\ req[r].sid \in DOMAIN activeSessions
           /\ resp[r].body.message # InvalidSessionMessage

\* C3: an initialize POST carrying an identifier that is not in the map
\* stores its new session under that identifier, and adds no other key.
C3_AutoRecoveryInitialize ==
    [][\A r \in Reqs :
          (pc[r] = "awaitConnect" /\ pc'[r] # "awaitConnect" /\ Truthy(req[r].sid))
          => /\ DOMAIN activeSessions' = DOMAIN activeSessions \cup {req[r].sid}
             /\ activeSessions'[req[r].sid].transport = loc[r].transport
             /\ activeSessions'[req[r].sid].server = loc[r].server
             /\ (DOMAIN activeSessions = {} => Cardinality(DOMAIN activeSessions') = 1)]_vars

\* C3 witness: the client sent back an identifier the server had generated
\* (so it was stored, and then swept), and the new session is the only one
\* and is stored under it.
C3_Witness ==
    \E r \in Reqs :
        /\ pc[r] = "handoff" /\ Created(r)
        /\ req[r].sid # NoSid /\ req[r].sid[1] = "session"
        /\ DOMAIN activeSessions = {req[r].sid}
        /\ activeSessions[req[r].sid].transport = loc[r].transport

\* C4: every entry's key is the identifier its transport's generator gives
\* and the one the transport has issued; an initialize without a header adds
\* exactly one entry, under a generated identifier, and the identifier
\* returned to the client is that key.
C4_Minting ==
    /\ [](\A s \in DOMAIN activeSessions :
            LET tr == transports[activeSessions[s].transport] IN
            /\ sessionIdGenerator(tr, now, uuids + 1) = s
            /\ Truthy(tr.sessionId) => tr.sessionId = s)
    /\ [](\A r \in Reqs :
            (Created(r) /\ resp[r].status = 200)
            => /\ resp[r].sid = loc[r].effectiveSessionId
               /\ (~Truthy(req[r].sid) => resp[r].sid[1] = "session"))
    /\ [][\A r \in Reqs :
            (pc[r] = "awaitConnect" /\ pc'[r] # "awaitConnect" /\ ~Truthy(req[r].sid))
            => /\ loc[r].effectiveSessionId \notin DOMAIN activeSessions
               /\ DOMAIN activeSessions' =
                     DOMAIN activeSessions \cup {loc[r].effectiveSessionId}
               /\ loc[r].effectiveSessionId[1] = "session"]_vars

\* C4 witness: an initialize without a header was answered 200 with the
\* identifier its session is stored under.
C4_Witness ==
    \E r \in Reqs :
        /\ pc[r] = "initAudit" /\ Created(r) /\ req[r].sid = NoSid
        /\ resp[r].status = 200
        /\ resp[r].sid \in DOMAIN activeSessions
        /\ activeSessions[resp[r].sid].transport = loc[r].transport

\* C5: when the route is about to call transport.handleRequest for a session
\* it has just created, the map holds that session under its identifier.
C5_StoreBeforeHandle ==
    \A r \in Reqs :
        (pc[r] = "handoff" /\ loc[r].created)
        => /\ loc[r].effectiveSessionId \in DOMAIN activeSessions
           /\ activeSessions[loc[r].effectiveSessionId].transport = loc[r].transport

\* C5 witness: a created session is about to be handed its initialize.
C5_Witness ==
    \E r \in Reqs :
        /\ pc[r] = "handoff" /\ Created(r) /\ cur = r
        /\ ~Truthy(transports[loc[r].transport].sessionId)

\* C6 (as claimed): two initialize POSTs carrying the same identifier never
\* get a pair each.
C6_NoDoubleCreation ==
    \A r1, r2 \in Reqs :
        (/\ r1 # r2 /\ Created(r1) /\ Created(r2)
         /\ Truthy(req[r1].sid) /\ req[r1].sid = req[r2].sid
         /\ pc[r1] \in {"handling", "initAudit", "done"}
         /\ pc[r2] \in {"handling", "initAudit", "done"})
        => loc[r1].transport = loc[r2].transport

\* C7 (as claimed): an entry of the map never has its server or transport
\* replaced while it stays in the map.
C7_BindingStability ==
    [][\A s \in DOMAIN activeSessions \cap DOMAIN activeSessions' :
          /\ activeSessions'[s].server = activeSessions[s].server
          /\ activeSessions'[s].transport = activeSessions[s].transport]_vars

\* C8 (as claimed): while a request is being handled on a session, the sweep
\* does not delete that session's entry.
C8_SweepNotInUse ==
    \A r \in Reqs :
        pc[r] \in {"handoff", "handling", "listAudit"}
        => SessionKey(r) \in DOMAIN activeSessions

\* C9: an unauthorized POST is answered 401 with the -32000 envelope and id
\* null, and nothing is looked up, touched or constructed.
C9_UnauthorizedNoSessionWork ==
    [][\A r \in Reqs :
          (Arrives(r) /\ NotBearerUuid(req'[r].auth))
          => /\ pc'[r] = "done"
             /\ resp'[r].status = 401
             /\ resp'[r].body.kind = "error" /\ resp'[r].body.code = -32000
             /\ resp'[r].id = "null"
             /\ activeSessions' = activeSessions
             /\ servers' = servers /\ transports' = transports
             /\ loc'[r].transport = NoObj /\ loc'[r].server = NoObj]_vars

\* C9 witness: a POST with a malformed token and the identifier of a live
\* session was answered 401.
C9_Witness ==
    \E r \in Reqs :
        /\ pc[r] = "done" /\ resp[r].status = 401
        /\ req[r].auth.token = "not-a-uuid"
        /\ req[r].sid \in DOMAIN activeSessions

\* C10 (as claimed): a downstream result with isError = true comes back from
\* the tools/call handler as a result with isError = true, not as a JSON-RPC
\* error.
C10_ToolFailureIsData ==
    \A r \in Reqs :
        (/\ pc[r] = "done" /\ req[r].method = "tools/call"
         /\ ~IsBuiltin(req[r].tool)
         /\ loc[r].outcome.how = "returns" /\ loc[r].outcome.isError)
        => /\ resp[r].status = 200
           /\ resp[r].body.kind = "result"
           /\ resp[r].body.isError

\* The request is a finished tools/call of a downstream tool whose provider
\* returned a successful result.
DownstreamSuccess(r) ==
    /\ pc[r] = "done" /\ req[r].method = "tools/call" /\ ~IsBuiltin(req[r].tool)
    /\ loc[r].outcome.how = "returns" /\ ~loc[r].outcome.isError

\* C11: for a successful downstream result the handler returns the provider's
\* content unchanged when it is an array, and an array of exactly one text
\* block holding the serialized content otherwise; the returned content is
\* always an array, and normalizing it again changes nothing.
C11_ResultNormalization ==
    \A r \in Reqs :
        DownstreamSuccess(r)
        => LET given == loc[r].outcome.content
               returned == resp[r].body.content
           IN /\ resp[r].body.kind = "result"
              /\ IsArray(returned)
              /\ IsArray(given) => returned = given
              /\ ~IsArray(given) => /\ Len(returned.s) = 1
                                    /\ returned.s[1] = Stringify(given)
              /\ NormalizeContent(returned) = returned

\* C11 witness: an object returned by the provider came back as one text block.
C11_Witness ==
    \E r \in Reqs :
        /\ DownstreamSuccess(r)
        /\ loc[r].outcome.content = JsonObject("ok:1")
        /\ resp[r].body.content = JsonArray(<<"{ok:1}">>)

\* The audit call of request r returns or throws in this step.
ListAuditEnds(r) == pc[r] = "listAudit" /\ pc'[r] # "listAudit"
InitAuditEnds(r) == pc[r] = "initAudit" /\ pc'[r] # "initAudit"

\* C12: whether McpToolCallModel.create inserts or throws, tools/list is
\* answered 200 with the tools, the response already written for initialize
\* stays as it is, and the session map does not change.
C12_AuditNonInterference ==
    [][\A r \in Reqs :
          /\ ListAuditEnds(r)
             => /\ resp'[r].status = 200
                /\ resp'[r].body = HandlerResult(JsonArray(<<"tools">>), FALSE)
                /\ resp'[r].sid = transports[loc[r].transport].sessionId
                /\ activeSessions' = activeSessions
          /\ InitAuditEnds(r)
             => /\ resp'[r] = resp[r]
                /\ activeSessions' = activeSessions]_vars

\* C12 witness: a tools/list was answered 200 with the tools although no
\* audit row could be written, for it or for the initialize before it.
C12_Witness ==
    \E r \in Reqs :
        /\ pc[r] = "done" /\ req[r].method = "tools/list"
        /\ resp[r].status = 200 /\ resp[r].body.kind = "result"
        /\ audit = <<>>

\* C13 (as claimed): whenever the audit call of a tools/list or an initialize
\* is pending, the response to that request has already been produced, so
\* that an audit call that never returns keeps no response back.
C13_AuditNotAwaited ==
    \A r \in Reqs :
        pc[r] \in {"listAudit", "initAudit"} => resp[r].status # NoResp.status

\* The handler of a tools/call returns or throws in this step.
CallToolEnds(r) ==
    pc[r] = "handling" /\ req[r].method = "tools/call" /\ pc'[r] # "handling"

ErrorBeforeHandover(r) == pc[r] = "awaitAgent" /\ pc'[r] = "done"
ErrorAfterHandover(r) ==
    pc[r] = "handling" /\ pc'[r] = "done" /\ loc'[r].outcome = NoOutcome

\* C15: an error before the reply is handed to the transport is answered 500
\* with the -32603 envelope; after the handover the dispatcher writes
\* nothing, and a response once written is never written again.
C15_DispatcherFailureMapping ==
    /\ [][\A r \in Reqs :
            /\ ErrorBeforeHandover(r)
               => /\ resp'[r].status = 500
                  /\ resp'[r].body.kind = "error" /\ resp'[r].body.code = -32603
                  /\ resp'[r].id = "null"
            /\ ErrorAfterHandover(r) => resp'[r] = resp[r]
            /\ resp[r] # NoResp => resp'[r] \in {resp[r], NoResp}]_vars
    /\ [](\A r \in Reqs : resp[r].status = 500 => ~ReplySent(r))

\* C15 witness: handleRequest rejected after the handover and the request
\* ended with no envelope written by the dispatcher.
C15_Witness ==
    \E r \in Reqs : pc[r] = "done" /\ ReplySent(r) /\ resp[r] = NoResp

\* C16 (as claimed): whatever the builtin executor or the downstream client
\* throws, the tools/call handler throws the JSON-RPC error -32603 "Tool
\* execution failed" with the thrown error's message as data.
C16_RouterErrorShape ==
    \A r \in Reqs :
        (/\ pc[r] = "done" /\ req[r].method = "tools/call"
         /\ loc[r].outcome.how \in {"throwsError", "throwsCoded", "throwsValue"})
        => /\ resp[r].body.kind = "error"
           /\ resp[r].body.code = -32603
           /\ resp[r].body.message = "Tool execution failed"
           /\ loc[r].outcome.how # "throwsValue" => resp[r].body.data = loc[r].outcome.error

\* The name carries the host-builtin prefix "archestra__".
HasBuiltinPrefix(name) ==
    /\ Len(name) >= 2
    /\ name[1] = MCP_SERVER_NAME[1] /\ name[2] = MCP_SERVER_TOOL_NAME_SEPARATOR[1]

\* C17: a tools/call whose name has the builtin prefix is executed by the
\* builtin executor alone, for the agent of the session's server, and what
\* the executor returns is the handler's result; any other name is executed
\* by the downstream client alone.
C17_BuiltinRouting ==
    \A r \in Reqs :
        (pc[r] = "done" /\ req[r].method = "tools/call" /\ loc[r].outcome # NoOutcome)
        => IF HasBuiltinPrefix(req[r].tool)
           THEN /\ loc[r].exec.by = "builtin"
                /\ loc[r].exec.agent = servers[loc[r].server].agentId
                /\ loc[r].outcome \in BuiltinOutcomes
                /\ loc[r].outcome.how = "returns"
                   => resp[r].body = HandlerResult(loc[r].outcome.content,
                                                   loc[r].outcome.isError)
           ELSE /\ loc[r].exec.by = "downstream"
                /\ loc[r].outcome \in DownstreamOutcomes

\* C17 witness: archestra__whoami was answered with the builtin executor's
\* own result.
C17_Witness ==
    \E r \in Reqs :
        /\ pc[r] = "done" /\ req[r].tool = <<"archestra", "__", "whoami">>
        /\ loc[r].exec.by = "builtin"
        /\ resp[r].body = HandlerResult(JsonArray(<<"agent">>), FALSE)

\* C18: every stored session's server was built for an agent the lookup
\* found, so a tools/call is dispatched for such an agent only; a lookup
\* that finds no agent adds no session and no transport and is answered
\* with the 500 / -32603 envelope.
C18_ResolvedAgentOnly ==
    /\ [](\A s \in DOMAIN activeSessions :
            servers[activeSessions[s].server].agentId \in ExistingAgents)
    /\ [](\A r \in Reqs :
            (pc[r] = "handling" /\ req[r].method = "tools/call")
            => ServerAgent(r) \in ExistingAgents)
    /\ [][\A r \in Reqs :
            (pc[r] = "awaitAgent" /\ pc'[r] # "awaitAgent"
               /\ loc[r].agentId \notin ExistingAgents)
            => /\ activeSessions' = activeSessions
               /\ transports' = transports /\ servers' = servers
               /\ pc'[r] = "done"
               /\ resp'[r].status = 500 /\ resp'[r].body.code = -32603]_vars

\* C18 witness: an initialize for an agent that does not exist was answered
\* 500 "Agent not found".
C18_Witness ==
    \E r \in Reqs :
        /\ pc[r] = "done" /\ isInitialize(req[r])
        /\ loc[r].agentId = AgentB /\ loc[r].transport = NoObj
        /\ resp[r].status = 500 /\ resp[r].body.data = "Agent not found"

\* C19: one run of the sweep removes exactly the sessions whose age
\* now - lastAccess is greater than the timeout, and leaves every other
\* entry, one whose age equals the timeout too, as it was.
C19_SweepResult ==
    [][cleanupExpiredSessions
       => /\ DOMAIN activeSessions' \subseteq DOMAIN activeSessions
          /\ \A s \in DOMAIN activeSessions :
                IF now - activeSessions[s].lastAccess > 1800000
                THEN s \notin DOMAIN activeSessions'
                ELSE /\ s \in DOMAIN activeSessions'
                     /\ activeSessions'[s] = activeSessions[s]]_vars

\* C19 witness: at the first instant at which a session can be expired, a
\* session last used at 0 has been swept, and one last used at 1, whose age
\* equals the timeout, is in the map.
C19_Witness ==
    /\ now = SESSION_TIMEOUT_MS + 1
    /\ \E i \in DOMAIN StoredSids : StoredSids[i] \notin DOMAIN activeSessions
    /\ \E s \in DOMAIN activeSessions :
          /\ activeSessions[s].lastAccess = 1
          /\ now - activeSessions[s].lastAccess = SESSION_TIMEOUT_MS

\* A GET has just been answered at slot r.
GetEnds(r) == pc[r] = "idle" /\ pc'[r] = "done" /\ req'[r].method = "GET"

\* C20: a GET leaves the session map, the servers and the transports as they
\* are; it is answered 200 with the agent id, transport "http" and
\* capabilities.tools = true when the header is "Bearer <uuid>", and 401
\* otherwise, whatever session header it carries.
C20_DiscoveryStateless ==
    /\ [][\A r \in Reqs :
            GetEnds(r) => /\ activeSessions' = activeSessions
                          /\ servers' = servers /\ transports' = transports]_vars
    /\ [](\A r \in Reqs :
            (pc[r] = "done" /\ req[r].method = "GET")
            => IF NotBearerUuid(req[r].auth)
               THEN resp[r].status = 401
               ELSE /\ resp[r].status = 200
                    /\ resp[r].body.agentId = req[r].auth.token
                    /\ resp[r].body.transport = "http"
                    /\ resp[r].body.tools)

\* C20 witness: a GET for an agent, carrying the identifier of a stored
\* session, was answered 200 with that agent.
C20_Witness ==
    \E r \in Reqs :
        /\ pc[r] = "done" /\ req[r].method = "GET"
        /\ req[r].sid \in DOMAIN activeSessions
        /\ resp[r].status = 200 /\ resp[r].body.agentId = AgentB


(***************************************************************************)
(* The adapter at work: a vendor response arrives and getToolCalls() is    *)
(* called on it.                                                           *)
(***************************************************************************)
AdapterInit ==
    /\ GatewayInit
    /\ PromptsIdle
    /\ AssignIdle
    /\ AuthIdle
    /\ content \in VendorContents
    /\ toolCalls = NoToolCalls

GetToolCalls ==
    /\ ~toolCalls.returned
    /\ toolCalls' = [returned |-> TRUE, value |-> getToolCalls(content)]
    /\ UNCHANGED <<content, gatewayVars, promptVars, assignVars, authVars>>

AdapterNext == GetToolCalls

AdapterSpec == AdapterInit /\ [][AdapterNext]_vars

\* The places of the tool-invocation blocks of a response, and the place of
\* the i-th of them.
ToolUsePlaces(blocks) == {k \in DOMAIN blocks : blocks[k].type = "tool_use"}
ToolUsePlace(blocks, i) ==
    CHOOSE k \in ToolUsePlaces(blocks) :
        Cardinality({j \in ToolUsePlaces(blocks) : j < k}) = i - 1

\* C21: for a vendor response with N tool-invocation blocks, getToolCalls
\* returns exactly N calls, the i-th with the id, the name and the arguments
\* of the i-th tool-invocation block; for N = 0 it returns the empty sequence.
C21_ExtractionPreserves ==
    toolCalls.returned =>
        LET n == Cardinality(ToolUsePlaces(content)) IN
        /\ DOMAIN toolCalls.value = 1..n
        /\ n = 0 => toolCalls.value = <<>>
        /\ \A i \in 1..n :
              LET block == content[ToolUsePlace(content, i)] IN
              /\ toolCalls.value[i].id = block.id
              /\ toolCalls.value[i].name = block.name
              /\ block.input.t = "object" => toolCalls.value[i].arguments = block.input

C21_Witness ==
    /\ toolCalls.returned
    /\ Len(content) = 3 /\ content[1].type = "text"
    /\ Len(toolCalls.value) = 2
    /\ toolCalls.value[1].id = "tool_1" /\ toolCalls.value[2].id = "tool_2"
    /\ toolCalls.value[1].name = "tool_one" /\ toolCalls.value[2].name = "tool_two"


(***************************************************************************)
(* The two places where a tool call is put in the common format: the       *)
(* adapter, on a response of at most one block, and the gateway's          *)
(* tools/call handler, with a healthy audit table.                         *)
(***************************************************************************)
OneBlockContents == {c \in VendorContents : Len(c) <= 1}

ArgumentsInit ==
    /\ GatewayInit
    /\ PromptsIdle
    /\ AssignIdle
    /\ AuthIdle
    /\ content \in OneBlockContents
    /\ toolCalls = NoToolCalls

ArgumentsNext == GetToolCalls \/ HealthyNext

ArgumentsSpec == ArgumentsInit /\ [][ArgumentsNext]_vars

\* A tools/call request has been handed to the downstream client.
HandedDownstream(r) ==
    /\ pc[r] = "done" /\ req[r].method = "tools/call"
    /\ loc[r].exec.by = "downstream"

\* C22: a tool-invocation block with an empty input is extracted as a call
\* whose arguments is the empty mapping, and no extracted call has null or
\* undefined arguments; the call the tools/call handler hands to the downstream
\* client has the empty mapping as arguments when the request carried none.
C22_EmptyArguments ==
    /\ toolCalls.returned =>
          \A i \in DOMAIN toolCalls.value :
             LET block == content[ToolUsePlace(content, i)] IN
             /\ toolCalls.value[i].arguments.t = "object"
             /\ block.input \in {EmptyMapping, JsonUndefined}
                   => toolCalls.value[i].arguments = EmptyMapping
    /\ \A r \in Reqs :
          HandedDownstream(r) =>
             /\ loc[r].exec.call.arguments.t = "object"
             /\ loc[r].exec.args = JsonUndefined
                   => loc[r].exec.call.arguments = EmptyMapping

C22_Witness ==
    /\ toolCalls.returned
    /\ Len(toolCalls.value) = 1
    /\ content[1].input = EmptyMapping
    /\ toolCalls.value[1].arguments = EmptyMapping
    /\ HandedDownstream(FirstReq)
    /\ loc[FirstReq].exec.args = JsonUndefined
    /\ loc[FirstReq].exec.call.arguments = EmptyMapping


InitializeUnderWay(r) ==
    /\ isInitialize(req[r]) /\ Truthy(req[r].sid)
    /\ loc[r].agentId \in ExistingAgents
    /\ pc[r] \in {"awaitAgent", "awaitConnect"}

\* C24: a non-initialize POST that carries the same client identifier as an
\* initialize POST and starts after that initialize has started finds the
\* session and is never answered with the 'no valid session' error.
C24_SessionVisibleToFollower ==
    \A r1, r2 \in Reqs :
        (/\ r1 # r2 /\ InitializeUnderWay(r1)
         /\ cur = r2 /\ pc[r2] = "done" /\ loc[r2].agentId # NoAgent
         /\ ~isInitialize(req[r2]) /\ req[r2].sid = req[r1].sid)
        => /\ Reused(r2)
           /\ resp[r2].body.message # InvalidSessionMessage


\* A tools/call has returned a result to the caller.
CallReturnedResult(r) ==
    /\ pc[r] = "done" /\ req[r].method = "tools/call"
    /\ resp[r].body.kind = "result"

\* C25: every tools/call that returns a result to the caller, by the builtin
\* executor or by the downstream client, returns a content that is a sequence
\* of content blocks, never a bare string or object.
C25_ResultsAreSequences ==
    \A r \in Reqs :
        CallReturnedResult(r) =>
            /\ loc[r].exec.by \in {"builtin", "downstream"}
            /\ IsArray(resp[r].body.content)

C25_Witness ==
    /\ CallReturnedResult(FirstReq)
    /\ loc[FirstReq].exec.by = "downstream"
    /\ loc[FirstReq].outcome.content = JsonString("hello")
    /\ resp[FirstReq].body.content = JsonArray(<<"\"hello\"">>)


\* A POST has just arrived at slot r and was resolved to a stored session.
ResolvedToStored(r) == Arrives(r) /\ pc'[r] = "handoff" /\ ~loc'[r].created

\* C26: a POST resolved to a stored session sets that session's lastAccess to
\* the current time at its arrival, before the request is handed to the
\* transport, and leaves every other session as it is; the lastAccess of a
\* session never decreases; a step changes the lastAccess only of the session
\* of the request that takes the step.
C26_Touch ==
    [][/\ \A r \in Reqs :
             ResolvedToStored(r) =>
                /\ pc[r] # "handling" /\ ~loc'[r].hijacked
                /\ req'[r].sid \in DOMAIN activeSessions'
                /\ activeSessions'[req'[r].sid].lastAccess = now
                /\ \A s \in DOMAIN activeSessions \ {req'[r].sid} :
                      /\ s \in DOMAIN activeSessions'
                      /\ activeSessions'[s] = activeSessions[s]
       /\ \A s \in DOMAIN activeSessions \cap DOMAIN activeSessions' :
             /\ activeSessions'[s].lastAccess >= activeSessions[s].lastAccess
             /\ activeSessions'[s].lastAccess # activeSessions[s].lastAccess
                   => \E r \in Reqs : /\ pc'[r] # pc[r]
                                      /\ s = IF loc'[r].created
                                             THEN loc'[r].effectiveSessionId
                                             ELSE req'[r].sid]_vars

C26_Witness ==
    \E r \in Reqs :
        /\ pc[r] = "handoff" /\ Reused(r)
        /\ now > 0
        /\ activeSessions[req[r].sid].lastAccess = now
        /\ \E s \in DOMAIN activeSessions : activeSessions[s].lastAccess < now


\* C27: a session leaves the map only in a sweep, and only when it has been
\* idle for longer than the timeout; no step of a request's handling removes
\* an entry.
C27_OnlySweepDestroys ==
    [][/\ \A s \in DOMAIN activeSessions \ DOMAIN activeSessions' :
             /\ now - activeSessions[s].lastAccess > SESSION_TIMEOUT_MS
             /\ cur = NoReq /\ cur' = NoReq
             /\ pc' = pc /\ req' = req /\ loc' = loc /\ resp' = resp
       /\ (\E r \in Reqs : pc'[r] # pc[r])
             => DOMAIN activeSessions \subseteq DOMAIN activeSessions']_vars

C27_Witness ==
    /\ now > SESSION_TIMEOUT_MS
    /\ \E t \in DOMAIN transports :
          /\ Truthy(transports[t].sessionId)
          /\ transports[t].sessionId \notin DOMAIN activeSessions
    /\ \E s \in DOMAIN activeSessions : activeSessions[s].lastAccess = now


(***************************************************************************)
(* The stored sessions under a running clock and a running interval timer: *)
(* time moves on, the timer's callback runs again and again between the    *)
(* handlers, and a handler that has answered ends.  No POST arrives, so no *)
(* stored session is used again.                                           *)
(***************************************************************************)
StoredFairSpec ==
    /\ StoredSpec
    /\ SF_vars(StoredTick)
    /\ SF_vars(cleanupExpiredSessions)
    /\ WF_vars(Retire(FirstReq))

\* C28: with time advancing and the sweep running, every session that gets
\* no further request is eventually removed from the map, and stays removed.
C28_IdleEventuallyReclaimed ==
    \A i \in DOMAIN StoredSids : <>[](StoredSids[i] \notin DOMAIN activeSessions)

C28_Witness ==
    /\ DOMAIN activeSessions = {}
    /\ now > SESSION_TIMEOUT_MS + 1
    /\ \A t \in DOMAIN transports : Truthy(transports[t].sessionId)


(***************************************************************************)
(* PromptModel.update at work: one prompt has been created, agents have    *)
(* been attached to it, and callers update prompts.  Every await of        *)
(* update is a point at which another call may run.                        *)
(***************************************************************************)
UpdateInputs == [name : {Undefined, "Updated Prompt"},
                 content : {Undefined, "Updated content"}]
AgentPrompt(agentId, promptId, order) ==
    [agentId |-> agentId, promptId |-> promptId, order |-> order]
InitialRelationships ==
    { <<>>,
      << AgentPrompt("agent-1", 1, 0) >>,
      << AgentPrompt("agent-1", 1, 0), AgentPrompt("agent-2", 1, 1) >>,
      << AgentPrompt("agent-2", 1, 0), AgentPrompt("agent-1", 1, 1) >> }

PromptInit ==
    /\ GatewayInit
    /\ AdapterIdle
    /\ AssignIdle
    /\ AuthIdle
    /\ promptsTable = << CreatedPrompt(1, "org-1", "user-1",
                            [name |-> "Original Prompt", type |-> "system",
                             content |-> "Original content"]) >>
    /\ agentPromptsTable \in InitialRelationships
    /\ updates = [u \in Updaters |-> NoUpdate]

\* The calls that have not inserted their row yet.
Inserting == {u \in Updaters : updates[u].pc \in {"findById", "selectRelationships",
                                                  "deactivate", "insert"}}

\* PromptModel.update(id, createdBy, input) is called.
Update(u) ==
    /\ updates[u].pc = "idle"
    /\ Len(promptsTable) + Cardinality(Inserting) < MaxPrompts
    /\ \E id \in {NoPromptId} \cup {promptsTable[i].id : i \in DOMAIN promptsTable},
          input \in UpdateInputs :
          updates' = [updates EXCEPT ![u] = [NoUpdate EXCEPT !.pc = "findById",
                                                             !.id = id,
                                                             !.createdBy = "user-2",
                                                             !.input = input]]
    /\ UNCHANGED <<promptsTable, agentPromptsTable, gatewayVars, adapterVars, assignVars, authVars>>

\* const currentPrompt = await PromptModel.findById(id); if (!currentPrompt) return null
FindById(u) ==
    /\ updates[u].pc = "findById"
    /\ LET currentPrompt == findById(promptsTable, updates[u].id) IN
       updates' = [updates EXCEPT
                      ![u].currentPrompt = currentPrompt,
                      ![u].returned = IF currentPrompt = NoPrompt THEN "null" ELSE "pending",
                      ![u].pc = IF currentPrompt = NoPrompt THEN "done"
                                ELSE "selectRelationships"]
    /\ UNCHANGED <<promptsTable, agentPromptsTable, gatewayVars, adapterVars, assignVars, authVars>>

\* const existingRelationships = await db.select().from(agentPromptsTable)...
SelectRelationships(u) ==
    /\ updates[u].pc = "selectRelationships"
    /\ updates' = [updates EXCEPT
                      ![u].existingRelationships =
                          [i \in RelationshipsOf(agentPromptsTable, updates[u].id) |->
                              agentPromptsTable[i]],
                      ![u].pc = "deactivate"]
    /\ UNCHANGED <<promptsTable, agentPromptsTable, gatewayVars, adapterVars, assignVars, authVars>>

\* Deactivate current version.
Deactivate(u) ==
    /\ updates[u].pc = "deactivate"
    /\ promptsTable' = Deactivated(promptsTable, updates[u].id)
    /\ updates' = [updates EXCEPT ![u].pc = "insert"]
    /\ UNCHANGED <<agentPromptsTable, gatewayVars, adapterVars, assignVars, authVars>>

\* Create new version.
Insert(u) ==
    /\ updates[u].pc = "insert"
    /\ LET newVersion == NewVersion(Len(promptsTable) + 1, updates[u].currentPrompt,
                                    updates[u].createdBy, updates[u].input)
       IN /\ promptsTable' = Append(promptsTable, newVersion)
          /\ updates' = [updates EXCEPT
                            ![u].newVersion = newVersion,
                            ![u].pc = IF DOMAIN updates[u].existingRelationships # {}
                                      THEN "migrate" ELSE "getAgents"]
    /\ UNCHANGED <<agentPromptsTable, gatewayVars, adapterVars, assignVars, authVars>>

\* Migrate agent-prompt relationships to the new version.
Migrate(u) ==
    /\ updates[u].pc = "migrate"
    /\ agentPromptsTable' = Migrated(agentPromptsTable, updates[u].id,
                                     updates[u].newVersion.id)
    /\ updates' = [updates EXCEPT ![u].pc = "getAgents"]
    /\ UNCHANGED <<promptsTable, gatewayVars, adapterVars, assignVars, authVars>>

\* return { ...newVersion, agents: await PromptModel.getAgentsForPrompt(newVersion.id) }
GetAgents(u) ==
    /\ updates[u].pc = "getAgents"
    /\ updates' = [updates EXCEPT
                      ![u].agents = getAgentsForPrompt(agentPromptsTable,
                                                       updates[u].newVersion.id),
                      ![u].returned = "version",
                      ![u].pc = "done"]
    /\ UNCHANGED <<promptsTable, agentPromptsTable, gatewayVars, adapterVars, assignVars, authVars>>

\* The caller has the value update returned.
Returned(u) ==
    /\ updates[u].pc = "done"
    /\ updates' = [updates EXCEPT ![u] = NoUpdate]
    /\ UNCHANGED <<promptsTable, agentPromptsTable, gatewayVars, adapterVars, assignVars, authVars>>

PromptNext ==
    \/ \E u \in Updaters : Update(u)
    \/ \E u \in Updaters : FindById(u)
    \/ \E u \in Updaters : SelectRelationships(u)
    \/ \E u \in Updaters : Deactivate(u)
    \/ \E u \in Updaters : Insert(u)
    \/ \E u \in Updaters : Migrate(u)
    \/ \E u \in Updaters : GetAgents(u)
    \/ \E u \in Updaters : Returned(u)

PromptSpec == PromptInit /\ [][PromptNext]_vars

\* The ids of the rows of the prompts table.
PromptIdsOf(table) == {table[i].id : i \in DOMAIN table}

UpdateSucceeds(u) == updates[u].pc = "getAgents" /\ updates'[u].pc = "done"

\* C30: when update(id, ...) returns its new version, every agent-prompt
\* relationship that pointed to the old version points to the new version,
\* with the agent and the order it had, and none points to the old version.
C30_RelationshipsMigrated ==
    [][\A u \in Updaters :
          UpdateSucceeds(u) =>
             /\ \A i \in DOMAIN updates[u].existingRelationships :
                   agentPromptsTable'[i] =
                      [updates[u].existingRelationships[i]
                          EXCEPT !.promptId = updates[u].newVersion.id]
             /\ RelationshipsOf(agentPromptsTable', updates[u].id) = {}]_vars


(***************************************************************************)
(* PromptModel.findVersions and PromptModel.delete, on a prompt that a     *)
(* sequence of create and update calls has built.                          *)
(***************************************************************************)
\* The rows with version k, then those with the versions above k.
RECURSIVE OrderedFrom(_, _, _)
OrderedFrom(rows, k, top) ==
    IF k > top THEN <<>>
    ELSE SelectSeq(rows, LAMBDA row : row.version = k) \o OrderedFrom(rows, k + 1, top)

\* .orderBy(promptsTable.version)
OrderByVersion(rows) == OrderedFrom(rows, 1, MaxPrompts + 1)

\* Get all versions (same name, type, and organization), ordered by version.
VersionsLike(table, currentPrompt) ==
    OrderByVersion(SelectSeq(table,
        LAMBDA row : /\ row.organizationId = currentPrompt.organizationId
                     /\ row.name = currentPrompt.name
                     /\ row.type = currentPrompt.type))

\* PromptModel.findVersions(promptId), run at one go.
findVersions(table, promptId) ==
    LET currentPrompt == findById(table, promptId) IN
    IF currentPrompt = NoPrompt THEN <<>> ELSE VersionsLike(table, currentPrompt)

\* db.delete(promptsTable).where(eq(id, versionId))
WithoutPrompt(table, versionId) == SelectSeq(table, LAMBDA row : row.id # versionId)

\* onDelete: "cascade" on the relationships of the deleted prompt
WithoutRelationshipsOf(table, versionId) ==
    SelectSeq(table, LAMBDA row : row.promptId # versionId)

\* PromptModel.update(id, createdBy, input), run at one go on the two tables.
Updated(tables, id, input) ==
    LET currentPrompt == findById(tables.prompts, id)
        newVersion == NewVersion(Len(tables.prompts) + 1, currentPrompt, "user-2", input)
    IN IF currentPrompt = NoPrompt THEN tables
       ELSE [prompts |-> Append(Deactivated(tables.prompts, id), newVersion),
             agentPrompts |-> Migrated(tables.agentPrompts, id, newVersion.id)]

\* The tables after create and at most n updates, one after the other.
RECURSIVE Lineages(_)
Lineages(n) ==
    IF n = 0
    THEN {[prompts |-> << CreatedPrompt(1, "org-1", "user-1",
                             [name |-> "Original Prompt", type |-> "system",
                              content |-> "Original content"]) >>,
           agentPrompts |-> a] : a \in InitialRelationships}
    ELSE LET before == Lineages(n - 1) IN
         before \cup {Updated(tables, id, input) :
                         tables \in before, id \in 1..n, input \in UpdateInputs}

LineageInit ==
    /\ GatewayInit
    /\ AdapterIdle
    /\ AssignIdle
    /\ AuthIdle
    /\ \E tables \in Lineages(MaxPrompts - 1) :
          /\ promptsTable = tables.prompts
          /\ agentPromptsTable = tables.agentPrompts
    /\ updates = [u \in Updaters |-> NoUpdate]

\* PromptModel.findVersions(promptId) is called: await PromptModel.findById
FindVersions(u) ==
    /\ updates[u].pc = "idle"
    /\ \E id \in 0..MaxPrompts :
          LET currentPrompt == findById(promptsTable, id) IN
          updates' = [updates EXCEPT
                         ![u] = [NoUpdate EXCEPT
                                    !.id = id,
                                    !.currentPrompt = currentPrompt,
                                    !.returned = IF currentPrompt = NoPrompt THEN "list"
                                                 ELSE "pending",
                                    !.pc = IF currentPrompt = NoPrompt THEN "done"
                                           ELSE "selectVersions"]]
    /\ UNCHANGED <<promptsTable, agentPromptsTable, gatewayVars, adapterVars, assignVars, authVars>>

\* const versions = await db.select()...orderBy(version); the versions are
\* returned with their agents.
SelectVersions(u) ==
    /\ updates[u].pc = "selectVersions"
    /\ updates' = [updates EXCEPT
                      ![u].versions = VersionsLike(promptsTable, updates[u].currentPrompt),
                      ![u].returned = "list",
                      ![u].pc = "done"]
    /\ UNCHANGED <<promptsTable, agentPromptsTable, gatewayVars, adapterVars, assignVars, authVars>>

\* PromptModel.delete(id) is called: await PromptModel.findById(id)
Delete(u) ==
    /\ updates[u].pc = "idle"
    /\ \E id \in 0..MaxPrompts :
          LET prompt == findById(promptsTable, id) IN
          updates' = [updates EXCEPT
                         ![u] = [NoUpdate EXCEPT
                                    !.id = id,
                                    !.returned = IF prompt = NoPrompt THEN "false"
                                                 ELSE "pending",
                                    !.pc = IF prompt = NoPrompt THEN "done"
                                           ELSE "deleteFindVersions"]]
    /\ UNCHANGED <<promptsTable, agentPromptsTable, gatewayVars, adapterVars, assignVars, authVars>>

\* const versions = await PromptModel.findVersions(id); versionIds = ids
DeleteFindVersions(u) ==
    /\ updates[u].pc = "deleteFindVersions"
    /\ LET versions == findVersions(promptsTable, updates[u].id) IN
       updates' = [updates EXCEPT
                      ![u].versions = versions,
                      ![u].versionIds = [i \in DOMAIN versions |-> versions[i].id],
                      ![u].pc = "deleteVersions"]
    /\ UNCHANGED <<promptsTable, agentPromptsTable, gatewayVars, adapterVars, assignVars, authVars>>

\* for (const versionId of versionIds) await db.delete(promptsTable)...
DeleteVersion(u) ==
    /\ updates[u].pc = "deleteVersions"
    /\ updates[u].versionIds # <<>>
    /\ LET versionId == Head(updates[u].versionIds) IN
       /\ promptsTable' = WithoutPrompt(promptsTable, versionId)
       /\ agentPromptsTable' = WithoutRelationshipsOf(agentPromptsTable, versionId)
    /\ updates' = [updates EXCEPT ![u].versionIds = Tail(updates[u].versionIds)]
    /\ UNCHANGED <<gatewayVars, adapterVars, assignVars, authVars>>

\* return true
DeleteReturns(u) ==
    /\ updates[u].pc = "deleteVersions"
    /\ updates[u].versionIds = <<>>
    /\ updates' = [updates EXCEPT ![u].returned = "true", ![u].pc = "done"]
    /\ UNCHANGED <<promptsTable, agentPromptsTable, gatewayVars, adapterVars, assignVars, authVars>>

LineageNext ==
    \/ \E u \in Updaters : FindVersions(u)
    \/ \E u \in Updaters : SelectVersions(u)
    \/ \E u \in Updaters : Delete(u)
    \/ \E u \in Updaters : DeleteFindVersions(u)
    \/ \E u \in Updaters : DeleteVersion(u)
    \/ \E u \in Updaters : DeleteReturns(u)
    \/ \E u \in Updaters : Returned(u)

LineageSpec == LineageInit /\ [][LineageNext]_vars

\* The ids of the rows a query returned.
IdsIn(rows) == {rows[i].id : i \in DOMAIN rows}

\* C31: findVersions returns the same versions for every version id of the
\* prompt, all of them, ordered by version number; delete from any version id
\* returns true and leaves no version of the prompt in the table; on an id no
\* row has findVersions returns the empty list and delete returns false.
C31_WholeLineage ==
    /\ \A v \in PromptIdsOf(promptsTable) :
          LET versions == findVersions(promptsTable, v) IN
          /\ IdsIn(versions) = PromptIdsOf(promptsTable)
          /\ \A i, j \in DOMAIN versions :
                i < j => versions[i].version <= versions[j].version
    /\ \A v \in (0..MaxPrompts) \ PromptIdsOf(promptsTable) :
          findVersions(promptsTable, v) = <<>>
    /\ \A u \in Updaters :
          /\ updates[u].returned = "true" => promptsTable = <<>>
          /\ updates[u].returned = "false" =>
                updates[u].id \notin PromptIdsOf(promptsTable)


\* No call of update is between its first write and its return.
NoUpdateUnderWay == \A u \in Updaters : updates[u].pc \in {"idle", "done"}

\* C38: whenever no update is under way, the prompt has exactly one version
\* with isActive = true, and no two of its versions have the same version
\* number.
C38_SingleActiveVersion ==
    NoUpdateUnderWay =>
        /\ Cardinality({i \in DOMAIN promptsTable : promptsTable[i].isActive}) = 1
        /\ \A i, j \in DOMAIN promptsTable :
              i # j => promptsTable[i].version # promptsTable[j].version


\* Request r runs tools/list or tools/call in a session's server.
ServedThroughSession(r) ==
    /\ req[r].method \in {"tools/list", "tools/call"}
    /\ pc[r] \in {"handling", "listAudit", "done"}
    /\ loc[r].hijacked /\ loc[r].server # NoObj

\* C36: a tools/list or tools/call handled through a session runs in a server
\* bound to the agent of the request's bearer token; a request authenticated
\* as one agent is never served by the server of another agent's session.
C36_SessionBoundToAgent ==
    \A r \in Reqs :
        ServedThroughSession(r) =>
            servers[loc[r].server].agentId = loc[r].agentId


\* C37: every POST that passed authentication and whose handling has ended
\* has been answered: by the transport, by the 400 envelope or by the 500
\* envelope, also when transport.handleRequest has thrown after the reply was
\* handed over and before anything was written.
C37_EveryPostAnswered ==
    \A r \in Reqs :
        (pc[r] = "done" /\ loc[r].agentId # NoAgent) =>
            /\ resp[r].status # 0
            /\ resp[r].status \in {400, 500} => resp[r].body.kind = "error"

(***************************************************************************)
(* Tool assignment.  One request is served: an assign, a bulk-assign whose *)
(* assignments settle one by one in any order, or a PATCH.  Any call may   *)
(* fail in the database before it wrote anything.                          *)
(***************************************************************************)
MaxAssignments == 3

SourceIds == {Undefined, Null, "server-team", "server-personal", "server-orphan",
              "server-gone"}
Assignment(agentId, toolId, credentialSourceMcpServerId, executionSourceMcpServerId) ==
    [agentId |-> agentId, toolId |-> toolId,
     credentialSourceMcpServerId |-> credentialSourceMcpServerId,
     executionSourceMcpServerId |-> executionSourceMcpServerId]
Assignments ==
    {Assignment(a, t, c, e) :
        a \in {"agent-1", "agent-2", "agent-gone"},
        t \in {"tool-local", "tool-remote", "tool-plain", "tool-gone"},
        c \in SourceIds, e \in SourceIds}
BulkAssignments ==
    {Assignment(a, t, Undefined, e) :
        a \in {"agent-1", "agent-gone"}, t \in {"tool-local", "tool-plain"},
        e \in {Undefined, "server-team"}}
BulkBodies == UNION {[1..n -> BulkAssignments] : n \in 0..MaxAssignments}
PatchIds == {AgentToolId("agent-1", "tool-local"), AgentToolId("agent-1", "tool-remote"),
             AgentToolId("agent-1", "tool-plain"), "gone"}
PatchBodies == [credentialSourceMcpServerId : SourceIds,
                executionSourceMcpServerId : SourceIds,
                toolResultTreatment : {Undefined, "trusted"}]
InitialAgentTools ==
    { {},
      {AgentToolRow("agent-1", "tool-local", Null, "server-team")},
      {AgentToolRow("agent-1", "tool-remote", "server-team", Null)},
      {AgentToolRow("agent-1", "tool-plain", Null, Null)} }

AssignInit ==
    /\ GatewayInit
    /\ AdapterIdle
    /\ PromptsIdle
    /\ AuthIdle
    /\ agentToolsTable \in InitialAgentTools
    /\ assigning = NoAssigning
    /\ patching = NoPatching

NoRequest == assigning = NoAssigning /\ patching = NoPatching
ApiError(message) == ErrorObject(500, "api_error", message)

\* POST /api/agents/:agentId/tools/:toolId
AssignTool(assignment, throws) ==
    /\ NoRequest
    /\ LET result == assignToolToAgent(agentToolsTable, assignment.agentId,
                         assignment.toolId, assignment.credentialSourceMcpServerId,
                         assignment.executionSourceMcpServerId)
           Request(value, reply) ==
               [route |-> "assign", assignments |-> <<assignment>>,
                before |-> agentToolsTable, results |-> <<value>>, reply |-> reply]
       IN  IF throws
           THEN /\ agentToolsTable' = agentToolsTable
                /\ assigning' = Request(Rejected("database error"),
                       [NoAssignReply EXCEPT !.status = 500,
                                             !.error = ApiError("database error")])
           ELSE /\ agentToolsTable' = result.table
                /\ assigning' = Request(result.value,
                       IF result.value.kind = "error"
                       THEN [NoAssignReply EXCEPT !.status = result.value.status,
                                                  !.error = result.value]
                       ELSE [NoAssignReply EXCEPT !.status = 200, !.success = TRUE])
    /\ UNCHANGED <<patching, gatewayVars, adapterVars, promptVars, authVars>>

\* POST /api/agents/tools/bulk-assign: assignments.map(assignToolToAgent)
BulkAssign(assignments) ==
    /\ NoRequest
    /\ assigning' = [route |-> "bulk", assignments |-> assignments,
                     before |-> agentToolsTable,
                     results |-> [i \in DOMAIN assignments |-> Pending],
                     reply |-> NoAssignReply]
    /\ UNCHANGED <<agentToolsTable, patching, gatewayVars, adapterVars, promptVars,
                   authVars>>

\* one promise of Promise.allSettled settles
Settle(i, throws) ==
    /\ assigning.route = "bulk"
    /\ i \in DOMAIN assigning.results
    /\ assigning.results[i] = Pending
    /\ LET assignment == assigning.assignments[i]
           result == assignToolToAgent(agentToolsTable, assignment.agentId,
                         assignment.toolId, assignment.credentialSourceMcpServerId,
                         assignment.executionSourceMcpServerId)
       IN  IF throws
           THEN /\ agentToolsTable' = agentToolsTable
                /\ assigning' = [assigning EXCEPT
                                     !.results[i] = Rejected("database error")]
           ELSE /\ agentToolsTable' = result.table
                /\ assigning' = [assigning EXCEPT !.results[i] = result.value]
    /\ UNCHANGED <<patching, gatewayVars, adapterVars, promptVars, authVars>>

\* results.forEach(...) and reply.send({ succeeded, failed, duplicates })
BulkReply ==
    /\ assigning.route = "bulk"
    /\ assigning.reply.status = 0
    /\ \A i \in DOMAIN assigning.results : assigning.results[i] # Pending
    /\ assigning' = [assigning EXCEPT
                         !.reply = [NoAssignReply EXCEPT
                             !.status = 200,
                             !.body = Classified(assigning.assignments,
                                                 assigning.results)]]
    /\ UNCHANGED <<agentToolsTable, patching, gatewayVars, adapterVars, promptVars,
                   authVars>>

\* PATCH /api/agent-tools/:id
Patch(id, body, throws) ==
    /\ NoRequest
    /\ LET result == patchAgentTool(agentToolsTable, id, body)
       IN  IF throws
           THEN /\ agentToolsTable' = agentToolsTable
                /\ patching' = [id |-> id, body |-> body, before |-> agentToolsTable,
                                reply |-> [NoPatchReply EXCEPT
                                               !.status = 500,
                                               !.error = ApiError("database error")]]
           ELSE /\ agentToolsTable' = result.table
                /\ patching' = [id |-> id, body |-> body, before |-> agentToolsTable,
                                reply |-> result.reply]
    /\ UNCHANGED <<assigning, gatewayVars, adapterVars, promptVars, authVars>>

AssignNext ==
    \/ \E assignment \in Assignments, throws \in BOOLEAN : AssignTool(assignment, throws)
    \/ \E assignments \in BulkBodies : BulkAssign(assignments)
    \/ \E i \in 1..MaxAssignments, throws \in BOOLEAN : Settle(i, throws)
    \/ BulkReply
    \/ \E id \in PatchIds, body \in PatchBodies, throws \in BOOLEAN : Patch(id, body, throws)

AssignSpec == AssignInit /\ [][AssignNext]_vars

\* The conditions under which assignToolToAgent may write.
MayAssign(assignment) ==
    LET tool == FindRow(toolsTable, assignment.toolId)
        serverType == IF Found(tool) /\ IsSet(tool.catalogId)
                      THEN FindRow(internalMcpCatalogTable, tool.catalogId).serverType
                      ELSE Undefined
    IN  /\ Found(FindRow(agentsTable, assignment.agentId))
        /\ Found(tool)
        /\ serverType = "local" => IsSet(assignment.executionSourceMcpServerId)
        /\ serverType = "remote" => IsSet(assignment.credentialSourceMcpServerId)
        /\ IsSet(assignment.credentialSourceMcpServerId) =>
               validateCredentialSource(assignment.agentId,
                   assignment.credentialSourceMcpServerId) = NoError
        /\ IsSet(assignment.executionSourceMcpServerId) =>
               validateExecutionSource(assignment.toolId,
                   assignment.executionSourceMcpServerId) = NoError

\* The stored assignment of an (agent, tool) pair as a request asked for it.
StoredAs(table, assignment) ==
    \E row \in RowsOf(table, assignment.agentId, assignment.toolId) :
        /\ row.credentialSourceMcpServerId = OrNull(assignment.credentialSourceMcpServerId)
        /\ row.executionSourceMcpServerId = OrNull(assignment.executionSourceMcpServerId)

AssignReturned ==
    /\ assigning.route = "assign"
    /\ assigning.results[1].kind # "rejected"

ClearsLocalExecutionSource ==
    /\ patching.reply.status \notin {0, 500}
    /\ patching.body.executionSourceMcpServerId = Null
    /\ \E row \in patching.before :
           /\ row.id = patching.id
           /\ LET tool == FindRow(toolsTable, row.toolId)
              IN  /\ Found(tool)
                  /\ IsSet(tool.catalogId)
                  /\ FindRow(internalMcpCatalogTable, tool.catalogId).serverType = "local"

\* C33: a PATCH that sets executionSourceMcpServerId to null on a
\* relationship whose tool comes from a local catalog item is answered 400
\* and leaves the agent_tools table as it was, whatever the other fields of
\* its body are.
C33_RequiredSourceKept ==
    ClearsLocalExecutionSource =>
        /\ patching.reply.status = 400
        /\ agentToolsTable = patching.before

BulkReplied == assigning.route = "bulk" /\ assigning.reply.status = 200

\* list holds, in the order of the input, exactly the inputs whose result is
\* of one of the kinds
ReportsInOrder(list, kinds) ==
    LET assignments == assigning.assignments
        results == assigning.results
        places == {i \in DOMAIN results : results[i].kind \in kinds}
    IN  /\ Len(list) = Cardinality(places)
        /\ \E at \in [DOMAIN list -> places] :
               /\ \A k, l \in DOMAIN list : k < l => at[k] < at[l]
               /\ \A k \in DOMAIN list :
                      /\ list[k].agentId = assignments[at[k]].agentId
                      /\ list[k].toolId = assignments[at[k]].toolId

\* C34: the bulk-assign reply puts every input in exactly one of succeeded
\* (created or updated), duplicates (unchanged) and failed (an error object
\* or a thrown error), each list in the order of the input, so the lists
\* together are as long as the input; every assignment was attempted, and
\* one that passes its validation succeeds whatever became of the others.
C34_BulkReportsEachOnce ==
    BulkReplied =>
        LET body == assigning.reply.body
            results == assigning.results
        IN  /\ Len(body.succeeded) + Len(body.failed) + Len(body.duplicates)
                   = Len(assigning.assignments)
            /\ ReportsInOrder(body.succeeded, {"null", "updated"})
            /\ ReportsInOrder(body.duplicates, {"duplicate"})
            /\ ReportsInOrder(body.failed, {"error", "rejected"})
            /\ \A i \in DOMAIN results :
                   /\ results[i] # Pending
                   /\ (results[i].kind # "rejected" /\ MayAssign(assigning.assignments[i]))
                          => results[i].kind \in {"null", "updated", "duplicate"}

\* A reply to assignments of which the first was rejected by the database,
\* another succeeded and another was a duplicate.
C34_Witness ==
    /\ BulkReplied
    /\ assigning.results # <<>>
    /\ assigning.results[1].kind = "rejected"
    /\ assigning.reply.body.succeeded # <<>>
    /\ assigning.reply.body.duplicates # <<>>
    /\ assigning.reply.body.failed # <<>>

(***************************************************************************)
(* The auth before-hook on one request.                                    *)
(***************************************************************************)
MaxDate == 3

Paths == { <<"/sign-up/email">>, <<"/sign-up/email", "-otp">>, <<"/sign-in/email">>,
           <<"/organization/invite-member">> }
Emails == {Undefined, "invited@example.com", "other@example.com", "not-an-email"}
InvitationLink(invitationId) == <<"http://example.com/sign-up?", "invitationId=", invitationId>>
CallbackURLs ==
    {NoCallbackURL, <<"http://example.com">>,
     <<"http://example.com/sign-up?", "invitationId=">>}
        \cup {InvitationLink(id) : id \in {"inv-pending", "inv-accepted", "inv-open", "inv-gone"}}
        \cup {InvitationLink("inv-pending") \o <<"&", "email=invited@example.com">>}
Ctxs == [path : Paths, method : {"POST", "GET"},
         body : [email : Emails, callbackURL : CallbackURLs]]

AuthInit ==
    /\ GatewayInit
    /\ AdapterIdle
    /\ PromptsIdle
    /\ AssignIdle
    /\ signUp \in {[NoSignUp EXCEPT !.ctx = ctx, !.today = today] :
                       ctx \in Ctxs, today \in 1..MaxDate}

\* hooks.before runs on the request
Before ==
    /\ signUp.outcome.kind = "pending"
    /\ signUp' = [signUp EXCEPT !.outcome = handleBeforeHook(signUp.ctx, signUp.today)]
    /\ UNCHANGED <<gatewayVars, adapterVars, promptVars, assignVars>>

AuthNext == Before

AuthSpec == AuthInit /\ [][AuthNext]_vars

HookReturned == signUp.outcome.kind # "pending"
IsSignUp(ctx) == ctx.path = <<"/sign-up/email">> /\ ctx.method = "POST"
SignUpErrors ==
    {"Direct sign-up is disabled. You need an invitation to create an account.",
     "Invalid invitation ID",
     "The invitation link has expired, please contact your admin for a new invitation",
     "Email address does not match the invitation. You must use the invited email address."}
        \cup {"This invitation has already been " \o invitationsTable[i].status :
                  i \in DOMAIN invitationsTable}

\* C35: a POST to /sign-up/email passes the before-hook exactly when its
\* callbackURL carries an invitation id, the invitation exists, is pending,
\* is not expired and was sent to the address that signs up; otherwise the
\* hook throws the error of the first of these that fails, FORBIDDEN for a
\* missing invitation id and BAD_REQUEST for the rest.  A request on another
\* path never gets one of these errors.
C35_InvitationOnlySignUp ==
    HookReturned =>
        LET ctx == signUp.ctx
            outcome == signUp.outcome
            invitationId == InvitationIdOf(ctx.body.callbackURL)
            invitation == FindRow(invitationsTable, invitationId)
            expected ==
                IF ~IsSet(invitationId)
                THEN APIError("FORBIDDEN",
                         "Direct sign-up is disabled. You need an invitation to create an account.")
                ELSE IF ~Found(invitation)
                THEN APIError("BAD_REQUEST", "Invalid invitation ID")
                ELSE IF invitation.status # "pending"
                THEN APIError("BAD_REQUEST",
                         "This invitation has already been " \o invitation.status)
                ELSE IF invitation.expiresAt # 0 /\ invitation.expiresAt < signUp.today
                THEN APIError("BAD_REQUEST",
                         "The invitation link has expired, please contact your admin for a new invitation")
                ELSE IF ctx.body.email # invitation.email
                THEN APIError("BAD_REQUEST",
                         "Email address does not match the invitation. You must use the invited email address.")
                ELSE Passes
        IN  IF IsSignUp(ctx)
            THEN outcome = expected
            ELSE outcome.message \notin SignUpErrors

=============================================================================
